---- MODULE Spec2Model ----
(***************************************************************************)
(* MME calculator formula library (src/mme_calc).                          *)
(*                                                                         *)
(* The library is a set of pure functions over Python floats.  A float is  *)
(* modelled as an exact rational <<n, d>> (d > 0, lowest terms) that is     *)
(* representable with Prec significant bits; every arithmetic operation    *)
(* computes the exact rational result and rounds it to the nearest         *)
(* representable value, ties to even, as IEEE-754 binary arithmetic does.  *)
(* Every argument is a finite number, except that the two hardness         *)
(* conversions are also queried with NaN, which float() accepts at their   *)
(* prompts; infinities are not inputs.                                     *)
(* The exponent range is bounded above where Python reports it: x ** y     *)
(* raises OverflowError when its result reaches 2^MaxExp.  The other       *)
(* operations are applied to values well inside the range, and subnormal   *)
(* numbers are not modelled.                                               *)
(*                                                                         *)
(* A call either returns a value or raises; the outcome of a call is a     *)
(* record whose kind is "ok", "ValueError", "ZeroDivisionError",            *)
(* "OverflowError" or "KeyError".                                           *)
(***************************************************************************)
EXTENDS Integers, Sequences, FiniteSets, TLC

VARIABLES
    HRC_HB_TABLE,         \* mechanical._HRC_HB_TABLE
    GALVANIC_POTENTIALS,  \* corrosion._GALVANIC_POTENTIALS
    pc,                   \* "ready": the caller is about to call; "done": a call has ended
    call,                 \* the last call: its function and its arguments
    result,               \* the outcome of the last call
    origin,               \* <<hrc>> when the last call converts hrc_to_hb(hrc) back, else <<>>
    threads,              \* concurrent callers: each one's call, position, locals and outcome
    menu,                 \* the menu function whose loop is running: "main_menu" or a sub-menu
    option,               \* 0 at "Enter choice", else the option whose inputs are being read
    values,               \* the inputs of that option read so far
    status,               \* "running", "exit_0" (sys.exit(0)), "returned" or "traceback"
    unread,               \* at most this many lines are left on standard input
    line,                 \* the last read: a line of text, or end of input
    choice,               \* what _show_menu returned in the last step, NoChoice if it did not
    shown,                \* the message the last step printed
    formula               \* the formula call of the last step, NoFormula if it made none

\* the state of the interactive program (menu.py)
menu_vars == <<menu, option, values, status, unread, line, choice, shown, formula>>

vars == <<HRC_HB_TABLE, GALVANIC_POTENTIALS, pc, call, result, origin, threads, menu_vars>>

----------------------------------------------------------------------------
(* Bounds of the model *)

\* significant bits of the modelled binary floating-point format
Prec == 12

\* floats are smaller in magnitude than 2^MaxExp (2^1024 for a Python float)
MaxExp == 24

\* number of callers that run library calls concurrently
MaxThreads == 2

\* standard input of the interactive program holds at most MaxInput lines
MaxInput == 5

----------------------------------------------------------------------------
(* Exact rationals *)

IAbs(i) == IF i < 0 THEN -i ELSE i

RECURSIVE GCD(_, _)
GCD(a, b) == IF b = 0 THEN a ELSE GCD(b, a % b)

RECURSIVE Pow2(_)
Pow2(k) == IF k <= 0 THEN 1 ELSE 2 * Pow2(k - 1)

\* the rational n/d in lowest terms with a positive denominator (d # 0)
Rat(n, d) ==
    LET g == GCD(IAbs(n), IAbs(d))
        s == IF d < 0 THEN -1 ELSE 1
    IN  <<(s * n) \div g, (s * d) \div g>>

Num(i) == <<i, 1>>
Zero == Num(0)
One == Num(1)

RNeg(x) == <<-x[1], x[2]>>
RAdd(x, y) ==
    LET g == GCD(x[2], y[2])
        l == (x[2] \div g) * y[2]
    IN  Rat(x[1] * (l \div x[2]) + y[1] * (l \div y[2]), l)
RSub(x, y) == RAdd(x, RNeg(y))
RMul(x, y) ==
    LET a == Rat(x[1], y[2])
        b == Rat(y[1], x[2])
    IN  Rat(a[1] * b[1], a[2] * b[2])
RDiv(x, y) == RMul(x, Rat(y[2], y[1]))
RAbs(x) == <<IAbs(x[1]), x[2]>>

----------------------------------------------------------------------------
(* Python float: comparison and correctly rounded arithmetic *)

\* float("nan"): written with denominator 0; every ordering comparison with
\* it is false
NaN == <<0, 0>>
IsNaN(x) == x[2] = 0

FLt(x, y) == ~IsNaN(x) /\ ~IsNaN(y) /\ x[1] * y[2] < y[1] * x[2]
FLe(x, y) == ~IsNaN(x) /\ ~IsNaN(y) /\ x[1] * y[2] <= y[1] * x[2]
FGt(x, y) == FLt(y, x)
FGe(x, y) == FLe(y, x)
FEq(x, y) == x = y

\* n/d > 0 scaled by a power of two into [2^(Prec-1), 2^Prec): <<n', d', e>>
\* with n'/d' = (n/d) / 2^e
MantHi == Pow2(Prec)
MantLo == Pow2(Prec - 1)

RECURSIVE Scale(_, _, _)
Scale(n, d, e) ==
    IF n \div MantHi >= d
    THEN IF n % 2 = 0 THEN Scale(n \div 2, d, e + 1) ELSE Scale(n, 2 * d, e + 1)
    ELSE IF n \div MantLo < d
    THEN IF d % 2 = 0 THEN Scale(n, d \div 2, e - 1) ELSE Scale(2 * n, d, e - 1)
    ELSE <<n, d, e>>

\* nearest Prec-bit float to n/d > 0, ties to the even significand
RoundPos(n, d) ==
    LET s == Scale(n, d, 0)
        q == s[1] \div s[2]
        r == s[1] % s[2]
        m == IF 2 * r > s[2] \/ (2 * r = s[2] /\ q % 2 = 1) THEN q + 1 ELSE q
    IN  IF s[3] >= 0 THEN Rat(m * Pow2(s[3]), 1) ELSE Rat(m, Pow2(-s[3]))

Round(x) ==
    IF x[1] = 0 THEN Zero
    ELSE IF x[1] > 0 THEN RoundPos(x[1], x[2])
    ELSE RNeg(RoundPos(-x[1], x[2]))

\* float(text) / a float literal: the decimal n/d rounded to the nearest float
Float(n, d) == Round(Rat(n, d))

FAdd(x, y) == Round(RAdd(x, y))
FSub(x, y) == Round(RSub(x, y))
FMul(x, y) == Round(RMul(x, y))
\* x / y for y # 0 (Python raises ZeroDivisionError for y = 0: see the callers)
FDiv(x, y) == Round(RDiv(x, y))
FAbs(x) == RAbs(x)

\* n/d > 0 scaled by a power of four into [4^(Prec-1), 4^Prec): <<n', d', e>>
\* with n'/d' = (n/d) / 4^e
RECURSIVE Scale4(_, _, _)
Scale4(n, d, e) ==
    IF (n \div MantHi) \div MantHi >= d
    THEN IF n % 4 = 0 THEN Scale4(n \div 4, d, e + 1) ELSE Scale4(n, 4 * d, e + 1)
    ELSE IF (n \div MantLo) \div MantLo < d
    THEN IF d % 4 = 0 THEN Scale4(n, d \div 4, e - 1) ELSE Scale4(4 * n, d, e - 1)
    ELSE <<n, d, e>>

\* the largest m in lo..hi with m * m <= v (lo * lo <= v)
RECURSIVE ISqrt(_, _, _)
ISqrt(lo, hi, v) ==
    IF lo = hi THEN lo
    ELSE LET mid == (lo + hi + 1) \div 2
         IN  IF mid * mid <= v THEN ISqrt(mid, hi, v) ELSE ISqrt(lo, mid - 1, v)

\* nearest Prec-bit float to the square root of n/d > 0
SqrtPos(n, d) ==
    LET s == Scale4(n, d, 0)
        whole == s[1] \div s[2]
        rest == s[1] % s[2]
        m == ISqrt(MantLo, MantHi - 1, whole)
        \* sqrt(n'/d') >= m + 1/2  iff  n'/d' >= m*m + m + 1/4
        gap == whole - m * m - m
        up == \/ gap > 0
              \/ gap = 0 /\ 4 * rest > s[2]
              \/ gap = 0 /\ 4 * rest = s[2] /\ m % 2 = 1
        r == IF up THEN m + 1 ELSE m
    IN  IF s[3] >= 0 THEN Rat(r * Pow2(s[3]), 1) ELSE Rat(r, Pow2(-s[3]))

\* x ** j for an integer j >= 0, exactly
RECURSIVE RPowNat(_, _)
RPowNat(x, j) == IF j = 0 THEN One ELSE RMul(x, RPowNat(x, j - 1))
\* x ** j for an integer j (x # 0 when j < 0), exactly
RPowInt(x, j) == IF j >= 0 THEN RPowNat(x, j) ELSE RPowNat(Rat(x[2], x[1]), -j)

----------------------------------------------------------------------------
(* Outcomes of a call *)

Ok(v) == [kind |-> "ok", val |-> v]
ValueError(msg) == [kind |-> "ValueError", msg |-> msg]
ZeroDivisionError == [kind |-> "ZeroDivisionError"]
OverflowError == [kind |-> "OverflowError"]
KeyError(key) == [kind |-> "KeyError", key |-> key]
NoResult == [kind |-> "none"]

Returned(r) == r.kind = "ok"
Raised(r) == r.kind \in {"ValueError", "ZeroDivisionError", "OverflowError", "KeyError"}

\* the rounded result v of x ** y: OverflowError when it is out of range
InRange(v) == IF IAbs(v[1]) \div v[2] >= Pow2(MaxExp) THEN OverflowError ELSE Ok(v)

\* x ** y on floats (float.__pow__), correctly rounded, for an exponent that
\* is a whole or a half number and, when it is a half number, a base x > 0
float_pow(x, y) ==
    IF y = Zero THEN Ok(One)
    ELSE IF x = Zero THEN (IF y[1] < 0 THEN ZeroDivisionError ELSE Ok(Zero))
    ELSE IF y[2] = 1 THEN InRange(Round(RPowInt(x, y[1])))
    ELSE LET q == RPowInt(x, y[1]) IN InRange(SqrtPos(q[1], q[2]))

\* math.sqrt(x) for x >= 0, correctly rounded
math_sqrt(x) == IF x = Zero THEN Zero ELSE SqrtPos(x[1], x[2])

\* exp(-x) for the arguments x the inputs lead to, as <<x, m, e>>: the
\* significand m and the exponent e of exp(-x) = m / 2^e to 20 bits
EXP_TABLE ==
    { <<<<1, 4>>, 816632, 20>>, <<<<1, 2>>, 635993, 20>>, <<<<1, 1>>, 771499, 21>>,
      <<<<2, 1>>, 567637, 22>>, <<<<4, 1>>, 614571, 25>> }

\* math.exp(x) for x = 0 and for the x with -x in EXP_TABLE, rounded to the
\* nearest float
math_exp(x) ==
    IF x = Zero THEN One
    ELSE LET row == CHOOSE r \in EXP_TABLE : r[1] = RNeg(x)
         IN  Round(<<row[2], Pow2(row[3])>>)

----------------------------------------------------------------------------
(* Module 1: mechanical.py, hardness conversion *)

\* faulty variant: the guard lets hb = 0 through
brinell_to_tensile_nonnegative(hb) ==
    IF FLt(hb, Zero)
    THEN ValueError(<<"Brinell Hardness must be positive.">>)
    ELSE Ok(FMul(Float(345, 100), hb))

brinell_to_tensile(hb) ==
    IF FLe(hb, Zero)
    THEN ValueError(<<"Brinell Hardness must be positive.">>)
    ELSE Ok(FMul(Float(345, 100), hb))

\* faulty variant: the entry for HRC 24 repeats the Brinell value of HRC 23
HRC_HB_TABLE_LITERAL_flat ==
    << <<20, 226>>, <<21, 231>>, <<22, 237>>, <<23, 243>>, <<24, 243>>,
       <<25, 253>>, <<26, 258>>, <<27, 264>>, <<28, 271>>, <<29, 279>>,
       <<30, 286>>, <<31, 294>>, <<32, 301>>, <<33, 311>>, <<34, 319>>,
       <<35, 327>>, <<36, 336>>, <<37, 344>>, <<38, 353>>, <<39, 362>>,
       <<40, 371>>, <<41, 381>>, <<42, 390>>, <<43, 400>>, <<44, 409>>,
       <<45, 421>>, <<46, 432>>, <<47, 442>>, <<48, 453>>, <<49, 465>>,
       <<50, 477>>, <<51, 489>>, <<52, 500>>, <<53, 514>>, <<54, 528>>,
       <<55, 545>> >>

\* _HRC_HB_TABLE as written in the source
HRC_HB_TABLE_LITERAL ==
    << <<20, 226>>, <<21, 231>>, <<22, 237>>, <<23, 243>>, <<24, 247>>,
       <<25, 253>>, <<26, 258>>, <<27, 264>>, <<28, 271>>, <<29, 279>>,
       <<30, 286>>, <<31, 294>>, <<32, 301>>, <<33, 311>>, <<34, 319>>,
       <<35, 327>>, <<36, 336>>, <<37, 344>>, <<38, 353>>, <<39, 362>>,
       <<40, 371>>, <<41, 381>>, <<42, 390>>, <<43, 400>>, <<44, 409>>,
       <<45, 421>>, <<46, 432>>, <<47, 442>>, <<48, 453>>, <<49, 465>>,
       <<50, 477>>, <<51, 489>>, <<52, 500>>, <<53, 514>>, <<54, 528>>,
       <<55, 545>> >>

\* for i in range(len(table) - 1): ... ; return table[-1][1]
\* (TLA+ sequences are 1-based: i here is the source's i + 1)
RECURSIVE hrc_to_hb_scan(_, _, _)
hrc_to_hb_scan(table, hrc, i) ==
    IF i > Len(table) - 1 THEN Ok(Num(table[Len(table)][2]))
    ELSE LET rc1 == Num(table[i][1])
             hb1 == Num(table[i][2])
             rc2 == Num(table[i + 1][1])
             hb2 == Num(table[i + 1][2])
         IN  IF FLe(rc1, hrc) /\ FLe(hrc, rc2)
             THEN IF FSub(rc2, rc1) = Zero THEN ZeroDivisionError
                  ELSE LET frac == FDiv(FSub(hrc, rc1), FSub(rc2, rc1))
                       IN  Ok(FAdd(hb1, FMul(frac, FSub(hb2, hb1))))
             ELSE hrc_to_hb_scan(table, hrc, i + 1)

\* faulty variant: the range check excludes the endpoints 20 and 55
hrc_to_hb_open_range(table, hrc) ==
    IF FLe(hrc, Num(20)) \/ FGe(hrc, Num(55))
    THEN ValueError(<<"HRC must be in the range 20-55 for reliable conversion.">>)
    ELSE hrc_to_hb_scan(table, hrc, 1)

\* faulty variant: the scan stops one bracket early, range(len(table) - 2)
RECURSIVE hrc_to_hb_scan_short(_, _, _)
hrc_to_hb_scan_short(table, hrc, i) ==
    IF i > Len(table) - 2 THEN Ok(Num(table[Len(table)][2]))
    ELSE LET rc1 == Num(table[i][1])
             hb1 == Num(table[i][2])
             rc2 == Num(table[i + 1][1])
             hb2 == Num(table[i + 1][2])
         IN  IF FLe(rc1, hrc) /\ FLe(hrc, rc2)
             THEN IF FSub(rc2, rc1) = Zero THEN ZeroDivisionError
                  ELSE LET frac == FDiv(FSub(hrc, rc1), FSub(rc2, rc1))
                       IN  Ok(FAdd(hb1, FMul(frac, FSub(hb2, hb1))))
             ELSE hrc_to_hb_scan_short(table, hrc, i + 1)

hrc_to_hb_short(table, hrc) ==
    IF FLt(hrc, Num(20)) \/ FGt(hrc, Num(55))
    THEN ValueError(<<"HRC must be in the range 20-55 for reliable conversion.">>)
    ELSE hrc_to_hb_scan_short(table, hrc, 1)

hrc_to_hb(table, hrc) ==
    IF FLt(hrc, Num(20)) \/ FGt(hrc, Num(55))
    THEN ValueError(<<"HRC must be in the range 20-55 for reliable conversion.">>)
    ELSE hrc_to_hb_scan(table, hrc, 1)

yield_strength(force, area) ==
    IF FLe(area, Zero)
    THEN ValueError(<<"Cross-sectional area must be positive.">>)
    ELSE Ok(FDiv(force, area))

RECURSIVE hb_to_hrc_scan(_, _, _)
hb_to_hrc_scan(table, hb, i) ==
    IF i > Len(table) - 1 THEN Ok(Num(table[Len(table)][1]))
    ELSE LET rc1 == Num(table[i][1])
             hb1 == Num(table[i][2])
             rc2 == Num(table[i + 1][1])
             hb2 == Num(table[i + 1][2])
         IN  IF FLe(hb1, hb) /\ FLe(hb, hb2)
             THEN IF FSub(hb2, hb1) = Zero THEN ZeroDivisionError
                  ELSE LET frac == FDiv(FSub(hb, hb1), FSub(hb2, hb1))
                       IN  Ok(FAdd(rc1, FMul(frac, FSub(rc2, rc1))))
             ELSE hb_to_hrc_scan(table, hb, i + 1)

\* faulty variant: the lower knot of the bracket is returned, not interpolated
RECURSIVE hb_to_hrc_scan_knot(_, _, _)
hb_to_hrc_scan_knot(table, hb, i) ==
    IF i > Len(table) - 1 THEN Ok(Num(table[Len(table)][1]))
    ELSE IF FLe(Num(table[i][2]), hb) /\ FLe(hb, Num(table[i + 1][2]))
         THEN Ok(Num(table[i][1]))
         ELSE hb_to_hrc_scan_knot(table, hb, i + 1)

hb_to_hrc_knot(table, hb) ==
    IF FLt(hb, Num(226)) \/ FGt(hb, Num(545))
    THEN ValueError(<<"HB must be in the range 226-545 for reliable HRC conversion.">>)
    ELSE hb_to_hrc_scan_knot(table, hb, 1)

hb_to_hrc(table, hb) ==
    IF FLt(hb, Num(226)) \/ FGt(hb, Num(545))
    THEN ValueError(<<"HB must be in the range 226-545 for reliable HRC conversion.">>)
    ELSE hb_to_hrc_scan(table, hb, 1)

----------------------------------------------------------------------------
(* Module 3: phase.py *)

\* faulty variant: W_beta is computed from the compositions, independently of
\* W_alpha
lever_rule_independent(c0, c_alpha, c_beta) ==
    LET denom == FSub(c_beta, c_alpha)
    IN  IF FEq(denom, Zero)
        THEN ValueError(<<"Phase boundary compositions must differ.">>)
        ELSE LET w_alpha == FDiv(FSub(c_beta, c0), denom)
                 w_beta == FDiv(FSub(c0, c_alpha), denom)
             IN  Ok(<<w_alpha, w_beta>>)

\* faulty variant: the two fractions are exchanged
lever_rule_exchanged(c0, c_alpha, c_beta) ==
    LET denom == FSub(c_beta, c_alpha)
    IN  IF FEq(denom, Zero)
        THEN ValueError(<<"Phase boundary compositions must differ.">>)
        ELSE LET w_alpha == FDiv(FSub(c0, c_alpha), denom)
                 w_beta == FSub(One, w_alpha)
             IN  Ok(<<w_alpha, w_beta>>)

lever_rule(c0, c_alpha, c_beta) ==
    LET denom == FSub(c_beta, c_alpha)
    IN  IF FEq(denom, Zero)
        THEN ValueError(<<"Phase boundary compositions must differ.">>)
        ELSE LET w_alpha == FDiv(FSub(c_beta, c0), denom)
                 w_beta == FSub(One, w_alpha)
             IN  Ok(<<w_alpha, w_beta>>)

\* faulty variant: a fraction solid of exactly 1 is let through
scheil_equation_closed(k, c0, fs) ==
    IF FLt(fs, Zero) \/ FGt(fs, One)
    THEN ValueError(<<"Fraction solid must be in [0, 1).">>)
    ELSE IF FLe(k, Zero)
    THEN ValueError(<<"Partition coefficient must be positive.">>)
    ELSE LET power == float_pow(FSub(One, fs), FSub(k, One))
         IN  IF Returned(power) THEN Ok(FMul(FMul(k, c0), power.val)) ELSE power

scheil_equation(k, c0, fs) ==
    IF FLt(fs, Zero) \/ FGe(fs, One)
    THEN ValueError(<<"Fraction solid must be in [0, 1).">>)
    ELSE IF FLe(k, Zero)
    THEN ValueError(<<"Partition coefficient must be positive.">>)
    ELSE LET power == float_pow(FSub(One, fs), FSub(k, One))
         IN  IF Returned(power) THEN Ok(FMul(FMul(k, c0), power.val)) ELSE power

----------------------------------------------------------------------------
(* Python str and dict, as far as corrosion.py uses them.  A str is the     *)
(* sequence of its characters; a dict is the sequence of its <<key, value>>  *)
(* items in insertion order, with distinct keys.                            *)

ASCII_UPPERCASE ==
    <<"A", "B", "C", "D", "E", "F", "G", "H", "I", "J", "K", "L", "M", "N", "O", "P", "Q", "R", "S", "T", "U", "V", "W", "X", "Y", "Z">>
ASCII_LOWERCASE ==
    <<"a", "b", "c", "d", "e", "f", "g", "h", "i", "j", "k", "l", "m", "n", "o", "p", "q", "r", "s", "t", "u", "v", "w", "x", "y", "z">>

\* str.lower(), on ASCII text
str_lower(s) ==
    [i \in 1..Len(s) |->
        IF \E j \in 1..Len(ASCII_UPPERCASE) : ASCII_UPPERCASE[j] = s[i]
        THEN ASCII_LOWERCASE[CHOOSE j \in 1..Len(ASCII_UPPERCASE) : ASCII_UPPERCASE[j] = s[i]]
        ELSE s[i]]

\* str.replace(old, new) for one-character old and new
str_replace(s, old, new) == [i \in 1..Len(s) |-> IF s[i] = old THEN new ELSE s[i]]

dict_keys(d) == [i \in 1..Len(d) |-> d[i][1]]
dict_contains(d, key) == \E i \in 1..Len(d) : d[i][1] = key
dict_getitem(d, key) == d[CHOOSE i \in 1..Len(d) : d[i][1] = key][2]

----------------------------------------------------------------------------
(* Module 4: corrosion.py, galvanic series *)

\* _GALVANIC_POTENTIALS as written in the source: key, decimal literal n/100
GALVANIC_POTENTIALS_LITERAL ==
    <<
       <<<<"m", "a", "g", "n", "e", "s", "i", "u", "m">>, <<-160, 100>>>>,
       <<<<"z", "i", "n", "c">>, <<-103, 100>>>>,
       <<<<"a", "l", "u", "m", "i", "n", "i", "u", "m">>, <<-76, 100>>>>,
       <<<<"m", "i", "l", "d", "_", "s", "t", "e", "e", "l">>, <<-60, 100>>>>,
       <<<<"c", "a", "s", "t", "_", "i", "r", "o", "n">>, <<-50, 100>>>>,
       <<<<"s", "t", "a", "i", "n", "l", "e", "s", "s", "_", "3", "0", "4">>, <<-8, 100>>>>,
       <<<<"s", "t", "a", "i", "n", "l", "e", "s", "s", "_", "3", "1", "6">>, <<-5, 100>>>>,
       <<<<"c", "o", "p", "p", "e", "r">>, <<-20, 100>>>>,
       <<<<"b", "r", "a", "s", "s">>, <<-30, 100>>>>,
       <<<<"n", "i", "c", "k", "e", "l">>, <<-12, 100>>>>,
       <<<<"s", "i", "l", "v", "e", "r">>, <<-2, 100>>>>,
       <<<<"t", "i", "t", "a", "n", "i", "u", "m">>, <<-5, 100>>>>,
       <<<<"g", "o", "l", "d">>, <<18, 100>>>>,
       <<<<"p", "l", "a", "t", "i", "n", "u", "m">>, <<22, 100>>>>
    >>

\* the dict built at import: each literal is parsed to the nearest float
GALVANIC_POTENTIALS_BUILD ==
    [i \in 1..Len(GALVANIC_POTENTIALS_LITERAL) |->
        <<GALVANIC_POTENTIALS_LITERAL[i][1],
          Float(GALVANIC_POTENTIALS_LITERAL[i][2][1], GALVANIC_POTENTIALS_LITERAL[i][2][2])>>]

\* faulty variant: the name is not lower-cased
canonical_key_cased(metal) == str_replace(metal, " ", "_")

\* metal.lower().replace(" ", "_")
canonical_key(metal) == str_replace(str_lower(metal), " ", "_")

unknown_metal(table, metal) ==
    ValueError(<<"Unknown metal: ", metal, ". Available: ", dict_keys(table)>>)

\* faulty variant: the comparison that picks the anode is reversed
galvanic_potential_diff_reversed(table, metal_a, metal_b) ==
    LET a_key == canonical_key(metal_a)
        b_key == canonical_key(metal_b)
    IN  IF ~dict_contains(table, a_key) THEN unknown_metal(table, metal_a)
        ELSE IF ~dict_contains(table, b_key) THEN unknown_metal(table, metal_b)
        ELSE LET va == dict_getitem(table, a_key)
                 vb == dict_getitem(table, b_key)
                 diff == FAbs(FSub(va, vb))
                 anode == IF FGt(va, vb) THEN metal_a ELSE metal_b
                 cathode == IF FGt(va, vb) THEN metal_b ELSE metal_a
             IN  Ok(<<diff, anode, cathode>>)

\* faulty variant: only the first name is checked, so an unknown second name
\* reaches the subscript and raises KeyError
galvanic_potential_diff_unchecked(table, metal_a, metal_b) ==
    LET a_key == canonical_key(metal_a)
        b_key == canonical_key(metal_b)
    IN  IF ~dict_contains(table, a_key) THEN unknown_metal(table, metal_a)
        ELSE IF ~dict_contains(table, b_key) THEN KeyError(b_key)
        ELSE LET va == dict_getitem(table, a_key)
                 vb == dict_getitem(table, b_key)
                 diff == FAbs(FSub(va, vb))
                 anode == IF FLt(va, vb) THEN metal_a ELSE metal_b
                 cathode == IF FLt(va, vb) THEN metal_b ELSE metal_a
             IN  Ok(<<diff, anode, cathode>>)

\* faulty variant: on equal potentials the first argument is the anode
galvanic_potential_diff_tie_first(table, metal_a, metal_b) ==
    LET a_key == canonical_key(metal_a)
        b_key == canonical_key(metal_b)
    IN  IF ~dict_contains(table, a_key) THEN unknown_metal(table, metal_a)
        ELSE IF ~dict_contains(table, b_key) THEN unknown_metal(table, metal_b)
        ELSE LET va == dict_getitem(table, a_key)
                 vb == dict_getitem(table, b_key)
                 diff == FAbs(FSub(va, vb))
                 anode == IF FLe(va, vb) THEN metal_a ELSE metal_b
                 cathode == IF FLe(va, vb) THEN metal_b ELSE metal_a
             IN  Ok(<<diff, anode, cathode>>)

\* faulty variant: the table keys are returned in place of the arguments
galvanic_potential_diff_keys(table, metal_a, metal_b) ==
    LET a_key == canonical_key(metal_a)
        b_key == canonical_key(metal_b)
    IN  IF ~dict_contains(table, a_key) THEN unknown_metal(table, metal_a)
        ELSE IF ~dict_contains(table, b_key) THEN unknown_metal(table, metal_b)
        ELSE LET va == dict_getitem(table, a_key)
                 vb == dict_getitem(table, b_key)
                 diff == FAbs(FSub(va, vb))
                 anode == IF FLt(va, vb) THEN a_key ELSE b_key
                 cathode == IF FLt(va, vb) THEN b_key ELSE a_key
             IN  Ok(<<diff, anode, cathode>>)

galvanic_potential_diff(table, metal_a, metal_b) ==
    LET a_key == canonical_key(metal_a)
        b_key == canonical_key(metal_b)
    IN  IF ~dict_contains(table, a_key) THEN unknown_metal(table, metal_a)
        ELSE IF ~dict_contains(table, b_key) THEN unknown_metal(table, metal_b)
        ELSE LET va == dict_getitem(table, a_key)
                 vb == dict_getitem(table, b_key)
                 diff == FAbs(FSub(va, vb))
                 anode == IF FLt(va, vb) THEN metal_a ELSE metal_b
                 cathode == IF FLt(va, vb) THEN metal_b ELSE metal_a
             IN  Ok(<<diff, anode, cathode>>)

\* list(_GALVANIC_POTENTIALS.keys()): a new list of the keys, in the order
\* of the table
available_metals(table) == Ok(dict_keys(table))

\* the table without the entries of the keys in gone
RECURSIVE dict_without(_, _)
dict_without(d, gone) ==
    IF d = <<>> THEN <<>>
    ELSE IF Head(d)[1] \in gone THEN dict_without(Tail(d), gone)
    ELSE <<Head(d)>> \o dict_without(Tail(d), gone)

----------------------------------------------------------------------------
(* Module 8: stress_strain.py *)

factor_of_safety(yield_stress, applied_stress) ==
    IF FEq(applied_stress, Zero)
    THEN ValueError(<<"Applied stress must not be zero.">>)
    ELSE Ok(FDiv(yield_stress, applied_stress))

\* faulty variant: the third term adds s3 and s1 instead of subtracting
von_mises_stress_added(s1, s2, s3) ==
    LET a == float_pow(FSub(s1, s2), Num(2))
        b == float_pow(FSub(s2, s3), Num(2))
        c == float_pow(FAdd(s3, s1), Num(2))
    IN  IF ~Returned(a) THEN a
        ELSE IF ~Returned(b) THEN b
        ELSE IF ~Returned(c) THEN c
        ELSE Ok(math_sqrt(FMul(Float(1, 2), FAdd(FAdd(a.val, b.val), c.val))))

\* the three squares are evaluated from left to right; the first that is
\* out of range raises
von_mises_stress(s1, s2, s3) ==
    LET a == float_pow(FSub(s1, s2), Num(2))
        b == float_pow(FSub(s2, s3), Num(2))
        c == float_pow(FSub(s3, s1), Num(2))
    IN  IF ~Returned(a) THEN a
        ELSE IF ~Returned(b) THEN b
        ELSE IF ~Returned(c) THEN c
        ELSE Ok(math_sqrt(FMul(Float(1, 2), FAdd(FAdd(a.val, b.val), c.val))))

\* A * (stress ** n) is evaluated before math.exp(-Q / (R * T))
creep_rate_steady_state(A, stress, n, Q, R, T) ==
    IF FLe(T, Zero)
    THEN ValueError(<<"Temperature must be positive (Kelvin).">>)
    ELSE LET power == float_pow(stress, n)
         IN  IF ~Returned(power) THEN power
             ELSE IF FMul(R, T) = Zero THEN ZeroDivisionError
             ELSE Ok(FMul(FMul(A, power.val),
                          math_exp(FDiv(RNeg(Q), FMul(R, T)))))

----------------------------------------------------------------------------
(* Module 2: thermal.py *)

\* faulty variant: the last layer is left out of the sum
RECURSIVE sum_resistances_short(_, _, _)
sum_resistances_short(layers, i, acc) ==
    IF i > Len(layers) - 1 THEN Ok(acc)
    ELSE IF layers[i][2] = Zero THEN ZeroDivisionError
    ELSE sum_resistances_short(layers, i + 1,
                               FAdd(acc, FDiv(layers[i][1], layers[i][2])))

\* sum(l / k for l, k in layers): the terms are added to 0 from left to
\* right, and the division by a conductivity k = 0 raises on the way
RECURSIVE sum_resistances(_, _, _)
sum_resistances(layers, i, acc) ==
    IF i > Len(layers) THEN Ok(acc)
    ELSE IF layers[i][2] = Zero THEN ZeroDivisionError
    ELSE sum_resistances(layers, i + 1,
                         FAdd(acc, FDiv(layers[i][1], layers[i][2])))

composite_slab_heat_flux(delta_t, layers) ==
    IF layers = <<>>
    THEN ValueError(<<"At least one layer is required.">>)
    ELSE LET total_resistance == sum_resistances(layers, 1, Zero)
         IN  IF ~Returned(total_resistance) THEN total_resistance
             ELSE IF FLe(total_resistance.val, Zero)
             THEN ValueError(<<"Total thermal resistance must be positive.">>)
             ELSE Ok(FDiv(FAbs(delta_t), total_resistance.val))

----------------------------------------------------------------------------
(* Module 3: phase.py, transformation kinetics *)

\* faulty variant: a system without a degree of freedom is rejected too
gibbs_phase_rule_strict(components, phases) ==
    IF components < 1 \/ phases < 1
    THEN ValueError(<<"Components and phases must be >= 1.">>)
    ELSE LET f == components - phases + 2
         IN  IF f <= 0
             THEN ValueError(<<"Invalid system: degrees of freedom cannot be negative.">>)
             ELSE Ok(f)

\* components and phases are Python ints, as the menu passes them; the
\* message is written here in ASCII (the source has the sign U+2265)
gibbs_phase_rule(components, phases) ==
    IF components < 1 \/ phases < 1
    THEN ValueError(<<"Components and phases must be >= 1.">>)
    ELSE LET f == components - phases + 2
         IN  IF f < 0
             THEN ValueError(<<"Invalid system: degrees of freedom cannot be negative.">>)
             ELSE Ok(f)

avrami_fraction(k, t, n) ==
    IF FLt(t, Zero)
    THEN ValueError(<<"Time must be non-negative.">>)
    ELSE IF FLt(k, Zero)
    THEN ValueError(<<"Rate constant k must be non-negative.">>)
    ELSE LET power == float_pow(t, n)
         IN  IF Returned(power)
             THEN Ok(FSub(One, math_exp(FMul(RNeg(k), power.val))))
             ELSE power

----------------------------------------------------------------------------
(* Module 5: casting.py *)

\* faulty variant: the difference is taken from the ambient temperature
newtonian_cooling_rate_heating(h, area, rho, cp, volume, t_current, t_ambient) ==
    IF FLe(volume, Zero) \/ FLe(rho, Zero) \/ FLe(cp, Zero)
    THEN ValueError(<<"Volume, density, and specific heat must be positive.">>)
    ELSE LET biot_group == FDiv(FMul(h, area), FMul(FMul(rho, cp), volume))
         IN  Ok(FMul(RNeg(biot_group), FSub(t_ambient, t_current)))

newtonian_cooling_rate(h, area, rho, cp, volume, t_current, t_ambient) ==
    IF FLe(volume, Zero) \/ FLe(rho, Zero) \/ FLe(cp, Zero)
    THEN ValueError(<<"Volume, density, and specific heat must be positive.">>)
    ELSE LET biot_group == FDiv(FMul(h, area), FMul(FMul(rho, cp), volume))
         IN  Ok(FMul(RNeg(biot_group), FSub(t_current, t_ambient)))

----------------------------------------------------------------------------
(* Module 7: composites.py *)

\* faulty variant: the ends 0 and 1 of the fibre fraction are rejected
rule_of_mixtures_longitudinal_open(e_fiber, v_fiber, e_matrix) ==
    IF ~(FLt(Zero, v_fiber) /\ FLt(v_fiber, One))
    THEN ValueError(<<"Fiber volume fraction must be between 0 and 1.">>)
    ELSE Ok(FAdd(FMul(e_fiber, v_fiber), FMul(e_matrix, FSub(One, v_fiber))))

rule_of_mixtures_longitudinal(e_fiber, v_fiber, e_matrix) ==
    IF ~(FLe(Zero, v_fiber) /\ FLe(v_fiber, One))
    THEN ValueError(<<"Fiber volume fraction must be between 0 and 1.">>)
    ELSE Ok(FAdd(FMul(e_fiber, v_fiber), FMul(e_matrix, FSub(One, v_fiber))))

halpin_tsai(e_matrix, e_fiber, v_fiber, xi) ==
    IF ~(FLe(Zero, v_fiber) /\ FLe(v_fiber, One))
    THEN ValueError(<<"Fiber volume fraction must be between 0 and 1.">>)
    ELSE IF FLe(e_matrix, Zero) \/ FLe(e_fiber, Zero)
    THEN ValueError(<<"Moduli must be positive.">>)
    ELSE LET ratio == FDiv(e_fiber, e_matrix)
         IN  IF FAdd(ratio, xi) = Zero THEN ZeroDivisionError
             ELSE LET eta == FDiv(FSub(ratio, One), FAdd(ratio, xi))
                      above == FMul(e_matrix, FAdd(One, FMul(FMul(xi, eta), v_fiber)))
                      below == FSub(One, FMul(eta, v_fiber))
                  IN  IF below = Zero THEN ZeroDivisionError
                      ELSE Ok(FDiv(above, below))

----------------------------------------------------------------------------
(* Inputs *)

\* HRC queries: every tenth from 19.5 to 55.5, as parsed by float()
HrcInputs == {Float(k, 10) : k \in 195..555} \cup {NaN}

\* Brinell hardness values for the tensile-strength estimate
BrinellInputs == {Float(k, 1) : k \in {-200, -1, 0, 1, 100, 200, 229, 400}}
                 \cup {Float(k, 16) : k \in {-1, 1, 3205}}

\* HB queries: every whole number from 224 to 547, and some fractions
HbInputs == {Float(k, 1) : k \in 224..547} \cup {Float(k, 4) : k \in 903..911}
            \cup {Float(k, 4) : k \in 2175..2183} \cup {NaN}

\* compositions for the lever rule
LeverInputs == {Float(k, 1) : k \in {0, 3, 5, 7, 20, 35, 60}}

\* forces and areas for yield_strength
ForceInputs == {Float(k, 1) : k \in {-100, 0, 100, 50000}}
AreaInputs == {Float(k, 2) : k \in {-2, 0, 1, 200}}

\* partition coefficients, compositions and solid fractions for scheil_equation
PartitionInputs == {Float(k, 2) : k \in {-2, 0, 1, 2, 4, 6}}
CompositionInputs == {Float(k, 2) : k \in {1, 8}}
FractionInputs == {Float(k, 4) : k \in {-2, 0, 1, 2, 3, 4, 6}}

\* stresses for factor_of_safety
YieldInputs == {Float(k, 1) : k \in {-250, 0, 250}}
AppliedInputs == {Float(k, 10) : k \in {-1000, 0, 1, 1000, 2500}}

\* temperature differences and layers <<thickness, conductivity>> for
\* composite_slab_heat_flux: the slab of the test suite, and slabs whose
\* resistances differ by more than the precision of a float
DeltaTInputs == {Float(k, 1) : k \in {-200, 0, 200}}
TestLayers == << <<Float(1, 10), Float(50, 1)>>, <<Float(5, 100), Float(100, 1)>> >>
LayerInputs ==
    { <<Float(4096, 1), One>>, <<Float(8192, 1), One>>, <<One, One>>,
      <<Float(-4096, 1), One>>, <<Float(3, 1), Zero>> }
SlabInputs ==
    {<<>>, TestLayers}
    \cup {<<a>> : a \in LayerInputs}
    \cup {<<a, b>> : a \in LayerInputs, b \in LayerInputs}
    \cup {<<a, b, c>> : a \in LayerInputs, b \in LayerInputs, c \in LayerInputs}

\* fibre and matrix properties and fibre fractions for
\* rule_of_mixtures_longitudinal: the values of the test suite, values that
\* no float holds exactly, and fractions just outside [0, 1]
PropertyInputs == {Float(k, 10) : k \in {-20, 0, 1, 35, 3500}}
MixFractionInputs ==
    {Float(k, 10) : k \in {-1, 0, 3, 6, 10, 15}}
    \cup {Float(k, 1024) : k \in {-1, 1025}}

\* numbers of components and of phases for gibbs_phase_rule
CountInputs == -1..6

\* heat transfer coefficients, areas, densities, specific heats, volumes
\* and temperatures for newtonian_cooling_rate: the values of the test
\* suite, and values at and beyond the ends of the physical range
TransferInputs == {Float(k, 1) : k \in {-1, 0, 100}}
SurfaceInputs == {Float(k, 10) : k \in {-5, 0, 1}}
DensityInputs == {Float(k, 1) : k \in {0, 7800}}
HeatInputs == {Float(k, 1) : k \in {-1, 500}}
VolumeInputs == {Float(k, 1000) : k \in {0, 1}}
CurrentInputs == {Float(k, 1) : k \in {20, 25, 800}}
AmbientInputs == {Float(k, 1) : k \in {25}}

\* moduli, fibre fractions and geometry parameters for halpin_tsai
MatrixInputs == {Float(k, 1) : k \in {0, 1}}
FiberInputs == {Float(k, 1) : k \in {-1, 2, 3, 32768}}
VolumeFractionInputs == {Float(k, 2) : k \in {-1, 0, 1, 2, 3}}
XiInputs == {Float(k, 1) : k \in {-3, -2, 2}}

\* rate constants, times and exponents for avrami_fraction
RateInputs == {Float(k, 2) : k \in {-2, 0, 1, 2}}
TimeInputs == {Float(k, 1) : k \in {-1, 0, 1, 2}}
ExponentInputs == {Float(k, 1) : k \in {-1, 0, 1, 2}}

\* stresses, stress exponents, activation energies, gas constants and
\* temperatures for creep_rate_steady_state
CreepStressInputs == {Float(k, 1) : k \in {0, 2}}
CreepExponentInputs == {Float(k, 1) : k \in {-1, 2}}
ActivationInputs == {Float(k, 1) : k \in {1, 2}}
GasConstantInputs == {Float(k, 1) : k \in {0, 1}}
TemperatureInputs == {Float(k, 1) : k \in {0, 1, 2}}

\* principal stresses for von_mises_stress: every odd quarter from 512 to
\* 1024, some of them compressive, the values of the test suite, and
\* stresses whose square is out of the range of a float
StressInputs ==
    {Float(2 * k + 1, 4) : k \in 1024..2047}
    \cup {Float(-(2 * k + 1), 4) : k \in 1024..1151}
    \cup {Float(k, 10) : k \in {-1000, -33, 0, 33, 1000}}
    \cup {Float(k, 1) : k \in {-8192, 8192}}
GeneralStressInputs == {Float(k, 1) : k \in {-100, 0, 50, 100}}
VonMisesInputs ==
    {<<s, s, s>> : s \in StressInputs}
    \cup {<<s, Zero, Zero>> : s \in StressInputs}
    \cup (GeneralStressInputs \X GeneralStressInputs \X GeneralStressInputs)

\* metal names as typed by a caller
MetalInputs ==
    {
      <<"z", "i", "n", "c">>,
      <<"c", "o", "p", "p", "e", "r">>,
      <<"Z", "i", "n", "c">>,
      <<"Z", "I", "N", "C">>,
      <<"M", "i", "l", "d", " ", "S", "t", "e", "e", "l">>,
      <<"m", "i", "l", "d", "_", "s", "t", "e", "e", "l">>,
      <<"M", "I", "L", "D", " ", "S", "T", "E", "E", "L">>,
      <<"s", "t", "a", "i", "n", "l", "e", "s", "s", "_", "3", "1", "6">>,
      <<"t", "i", "t", "a", "n", "i", "u", "m">>,
      <<"T", "i", "t", "a", "n", "i", "u", "m">>,
      <<"u", "n", "o", "b", "t", "a", "n", "i", "u", "m">>,
      <<"g", "o", "l", "d">>,
      <<"c", "a", "s", "t", "-", "i", "r", "o", "n">>,
      <<>>,
      <<"z", "i", "n", "c", " ">>
    }

----------------------------------------------------------------------------
(* The caller's cycle: call one formula, take its outcome, call again *)

NoCall == [fn |-> "none", args |-> <<>>]
Invoke(fn, args) == [fn |-> fn, args |-> args]

\* the interactive program before its first read
NoLine == [eof |-> FALSE, text |-> <<>>, read |-> FALSE]
NoChoice == NoResult
NoFormula == [fn |-> "none", raised |-> FALSE]

\* the concurrent callers, and a caller that is not in a call
Threads == 1..MaxThreads
Idle == [fn |-> "none", args |-> <<>>, at |-> "idle", i |-> 0, loc |-> <<>>,
         result |-> NoResult]

Init ==
    /\ HRC_HB_TABLE = HRC_HB_TABLE_LITERAL
    /\ GALVANIC_POTENTIALS = GALVANIC_POTENTIALS_BUILD
    /\ pc = "ready"
    /\ call = NoCall
    /\ result = NoResult
    /\ origin = <<>>
    /\ threads = [t \in Threads |-> Idle]
    /\ menu = "main_menu"
    /\ option = 0
    /\ values = <<>>
    /\ status = "running"
    /\ unread = MaxInput
    /\ line = NoLine
    /\ choice = NoChoice
    /\ shown = "banner"
    /\ formula = NoFormula

Call_hrc_to_hb ==
    /\ pc = "ready"
    /\ \E hrc \in HrcInputs :
          /\ call' = Invoke("hrc_to_hb", <<hrc>>)
          /\ result' = hrc_to_hb(HRC_HB_TABLE, hrc)
    /\ pc' = "done"
    /\ origin' = <<>>
    /\ UNCHANGED <<HRC_HB_TABLE, GALVANIC_POTENTIALS, threads, menu_vars>>

Call_brinell_to_tensile ==
    /\ pc = "ready"
    /\ \E hb \in BrinellInputs :
          /\ call' = Invoke("brinell_to_tensile", <<hb>>)
          /\ result' = brinell_to_tensile(hb)
    /\ pc' = "done"
    /\ origin' = <<>>
    /\ UNCHANGED <<HRC_HB_TABLE, GALVANIC_POTENTIALS, threads, menu_vars>>

Call_hb_to_hrc ==
    /\ pc = "ready"
    /\ \E hb \in HbInputs :
          /\ call' = Invoke("hb_to_hrc", <<hb>>)
          /\ result' = hb_to_hrc(HRC_HB_TABLE, hb)
    /\ pc' = "done"
    /\ origin' = <<>>
    /\ UNCHANGED <<HRC_HB_TABLE, GALVANIC_POTENTIALS, threads, menu_vars>>

\* hb = hrc_to_hb(hrc); hrc2 = hb_to_hrc(hb): the value returned by
\* hrc_to_hb is passed to hb_to_hrc
Call_hb_to_hrc_back ==
    /\ pc = "done"
    /\ call.fn = "hrc_to_hb"
    /\ Returned(result)
    /\ call' = Invoke("hb_to_hrc", <<result.val>>)
    /\ result' = hb_to_hrc(HRC_HB_TABLE, result.val)
    /\ origin' = call.args
    /\ pc' = "done"
    /\ UNCHANGED <<HRC_HB_TABLE, GALVANIC_POTENTIALS, threads, menu_vars>>

Call_lever_rule ==
    /\ pc = "ready"
    /\ \E c0 \in LeverInputs, c_alpha \in LeverInputs, c_beta \in LeverInputs :
          /\ call' = Invoke("lever_rule", <<c0, c_alpha, c_beta>>)
          /\ result' = lever_rule(c0, c_alpha, c_beta)
    /\ pc' = "done"
    /\ origin' = <<>>
    /\ UNCHANGED <<HRC_HB_TABLE, GALVANIC_POTENTIALS, threads, menu_vars>>

\* faulty variant: the potentials are taken out of the table with
\* _GALVANIC_POTENTIALS.pop(key) instead of being read
Call_galvanic_potential_diff_popped ==
    /\ pc = "ready"
    /\ \E metal_a \in MetalInputs, metal_b \in MetalInputs :
          /\ call' = Invoke("galvanic_potential_diff", <<metal_a, metal_b>>)
          /\ result' = galvanic_potential_diff(GALVANIC_POTENTIALS, metal_a, metal_b)
          /\ GALVANIC_POTENTIALS' =
                IF Returned(galvanic_potential_diff(GALVANIC_POTENTIALS, metal_a, metal_b))
                THEN dict_without(GALVANIC_POTENTIALS,
                                  {canonical_key(metal_a), canonical_key(metal_b)})
                ELSE GALVANIC_POTENTIALS
    /\ pc' = "done"
    /\ origin' = <<>>
    /\ UNCHANGED <<HRC_HB_TABLE, threads, menu_vars>>

Call_galvanic_potential_diff ==
    /\ pc = "ready"
    /\ \E metal_a \in MetalInputs, metal_b \in MetalInputs :
          /\ call' = Invoke("galvanic_potential_diff", <<metal_a, metal_b>>)
          /\ result' = galvanic_potential_diff(GALVANIC_POTENTIALS, metal_a, metal_b)
    /\ pc' = "done"
    /\ origin' = <<>>
    /\ UNCHANGED <<HRC_HB_TABLE, GALVANIC_POTENTIALS, threads, menu_vars>>

Call_available_metals ==
    /\ pc = "ready"
    /\ call' = Invoke("available_metals", <<>>)
    /\ result' = available_metals(GALVANIC_POTENTIALS)
    /\ pc' = "done"
    /\ origin' = <<>>
    /\ UNCHANGED <<HRC_HB_TABLE, GALVANIC_POTENTIALS, threads, menu_vars>>

Call_yield_strength ==
    /\ pc = "ready"
    /\ \E force \in ForceInputs, area \in AreaInputs :
          /\ call' = Invoke("yield_strength", <<force, area>>)
          /\ result' = yield_strength(force, area)
    /\ pc' = "done"
    /\ origin' = <<>>
    /\ UNCHANGED <<HRC_HB_TABLE, GALVANIC_POTENTIALS, threads, menu_vars>>

Call_scheil_equation ==
    /\ pc = "ready"
    /\ \E k \in PartitionInputs, c0 \in CompositionInputs, fs \in FractionInputs :
          /\ call' = Invoke("scheil_equation", <<k, c0, fs>>)
          /\ result' = scheil_equation(k, c0, fs)
    /\ pc' = "done"
    /\ origin' = <<>>
    /\ UNCHANGED <<HRC_HB_TABLE, GALVANIC_POTENTIALS, threads, menu_vars>>

Call_factor_of_safety ==
    /\ pc = "ready"
    /\ \E yield_stress \in YieldInputs, applied_stress \in AppliedInputs :
          /\ call' = Invoke("factor_of_safety", <<yield_stress, applied_stress>>)
          /\ result' = factor_of_safety(yield_stress, applied_stress)
    /\ pc' = "done"
    /\ origin' = <<>>
    /\ UNCHANGED <<HRC_HB_TABLE, GALVANIC_POTENTIALS, threads, menu_vars>>

Call_von_mises_stress ==
    /\ pc = "ready"
    /\ \E s \in VonMisesInputs :
          /\ call' = Invoke("von_mises_stress", s)
          /\ result' = von_mises_stress(s[1], s[2], s[3])
    /\ pc' = "done"
    /\ origin' = <<>>
    /\ UNCHANGED <<HRC_HB_TABLE, GALVANIC_POTENTIALS, threads, menu_vars>>

Call_composite_slab_heat_flux ==
    /\ pc = "ready"
    /\ \E delta_t \in DeltaTInputs, layers \in SlabInputs :
          /\ call' = Invoke("composite_slab_heat_flux", <<delta_t, layers>>)
          /\ result' = composite_slab_heat_flux(delta_t, layers)
    /\ pc' = "done"
    /\ origin' = <<>>
    /\ UNCHANGED <<HRC_HB_TABLE, GALVANIC_POTENTIALS, threads, menu_vars>>

Call_gibbs_phase_rule ==
    /\ pc = "ready"
    /\ \E components \in CountInputs, phases \in CountInputs :
          /\ call' = Invoke("gibbs_phase_rule", <<components, phases>>)
          /\ result' = gibbs_phase_rule(components, phases)
    /\ pc' = "done"
    /\ origin' = <<>>
    /\ UNCHANGED <<HRC_HB_TABLE, GALVANIC_POTENTIALS, threads, menu_vars>>

Call_newtonian_cooling_rate ==
    /\ pc = "ready"
    /\ \E h \in TransferInputs, area \in SurfaceInputs, rho \in DensityInputs,
          cp \in HeatInputs, volume \in VolumeInputs,
          t_current \in CurrentInputs, t_ambient \in AmbientInputs :
          /\ call' = Invoke("newtonian_cooling_rate",
                            <<h, area, rho, cp, volume, t_current, t_ambient>>)
          /\ result' = newtonian_cooling_rate(h, area, rho, cp, volume,
                                              t_current, t_ambient)
    /\ pc' = "done"
    /\ origin' = <<>>
    /\ UNCHANGED <<HRC_HB_TABLE, GALVANIC_POTENTIALS, threads, menu_vars>>

Call_rule_of_mixtures_longitudinal ==
    /\ pc = "ready"
    /\ \E e_fiber \in PropertyInputs, v_fiber \in MixFractionInputs,
          e_matrix \in PropertyInputs :
          /\ call' = Invoke("rule_of_mixtures_longitudinal", <<e_fiber, v_fiber, e_matrix>>)
          /\ result' = rule_of_mixtures_longitudinal(e_fiber, v_fiber, e_matrix)
    /\ pc' = "done"
    /\ origin' = <<>>
    /\ UNCHANGED <<HRC_HB_TABLE, GALVANIC_POTENTIALS, threads, menu_vars>>

Call_halpin_tsai ==
    /\ pc = "ready"
    /\ \E e_matrix \in MatrixInputs, e_fiber \in FiberInputs,
          v_fiber \in VolumeFractionInputs, xi \in XiInputs :
          /\ call' = Invoke("halpin_tsai", <<e_matrix, e_fiber, v_fiber, xi>>)
          /\ result' = halpin_tsai(e_matrix, e_fiber, v_fiber, xi)
    /\ pc' = "done"
    /\ origin' = <<>>
    /\ UNCHANGED <<HRC_HB_TABLE, GALVANIC_POTENTIALS, threads, menu_vars>>

Call_avrami_fraction ==
    /\ pc = "ready"
    /\ \E k \in RateInputs, t \in TimeInputs, n \in ExponentInputs :
          /\ call' = Invoke("avrami_fraction", <<k, t, n>>)
          /\ result' = avrami_fraction(k, t, n)
    /\ pc' = "done"
    /\ origin' = <<>>
    /\ UNCHANGED <<HRC_HB_TABLE, GALVANIC_POTENTIALS, threads, menu_vars>>

Call_creep_rate_steady_state ==
    /\ pc = "ready"
    /\ \E stress \in CreepStressInputs, n \in CreepExponentInputs,
          Q \in ActivationInputs, R \in GasConstantInputs, T \in TemperatureInputs :
          /\ call' = Invoke("creep_rate_steady_state", <<One, stress, n, Q, R, T>>)
          /\ result' = creep_rate_steady_state(One, stress, n, Q, R, T)
    /\ pc' = "done"
    /\ origin' = <<>>
    /\ UNCHANGED <<HRC_HB_TABLE, GALVANIC_POTENTIALS, threads, menu_vars>>

\* the caller has taken the outcome (printed the value or the error message):
\* nothing of the call is kept, and the caller is ready for the next call
Display ==
    /\ pc = "done"
    /\ pc' = "ready"
    /\ call' = NoCall
    /\ result' = NoResult
    /\ origin' = <<>>
    /\ UNCHANGED <<HRC_HB_TABLE, GALVANIC_POTENTIALS, threads, menu_vars>>

Next ==
    \/ Call_hrc_to_hb
    \/ Call_brinell_to_tensile
    \/ Call_hb_to_hrc
    \/ Call_hb_to_hrc_back
    \/ Call_lever_rule
    \/ Call_galvanic_potential_diff
    \/ Call_available_metals
    \/ Call_yield_strength
    \/ Call_scheil_equation
    \/ Call_factor_of_safety
    \/ Call_von_mises_stress
    \/ Call_composite_slab_heat_flux
    \/ Call_gibbs_phase_rule
    \/ Call_newtonian_cooling_rate
    \/ Call_rule_of_mixtures_longitudinal
    \/ Call_halpin_tsai
    \/ Call_avrami_fraction
    \/ Call_creep_rate_steady_state
    \/ Display

Spec == Init /\ [][Next]_vars

----------------------------------------------------------------------------
(* Concurrent callers: the steps of the table-reading functions, interleaved *)

\* the calls the concurrent callers make
ThreadCalls ==
    { Invoke("hrc_to_hb", <<Num(19)>>),
      Invoke("hrc_to_hb", <<Float(215, 10)>>),
      Invoke("hb_to_hrc", <<Num(546)>>),
      Invoke("hb_to_hrc", <<Num(234)>>),
      Invoke("galvanic_potential_diff",
             <<<<"c", "o", "p", "p", "e", "r">>, <<"Z", "i", "n", "c">>>>),
      Invoke("galvanic_potential_diff",
             <<<<"z", "i", "n", "c">>, <<"u", "n", "o", "b", "t", "a", "n", "i", "u", "m">>>>) }

\* thread t is at position at of a call of fn
Running(t, fn, at) == threads[t].fn = fn /\ threads[t].at = at

\* thread t moves to position at with loop index i and locals loc
Goto(t, at, i, loc) ==
    threads' = [threads EXCEPT ![t].at = at, ![t].i = i, ![t].loc = loc]

\* thread t leaves its call with outcome r
Finish(t, r) ==
    threads' = [threads EXCEPT ![t].at = "done", ![t].result = r]

\* a caller enters a library function
thread_call ==
    /\ \E t \in Threads, c \in ThreadCalls :
          /\ threads[t].at = "idle"
          /\ threads' = [threads EXCEPT ![t] =
                [fn |-> c.fn, args |-> c.args, at |-> "entry", i |-> 0,
                 loc |-> <<>>, result |-> NoResult]]
    /\ UNCHANGED <<HRC_HB_TABLE, GALVANIC_POTENTIALS, pc, call, result, origin, menu_vars>>

\* if hrc < 20 or hrc > 55: raise ValueError(...)
hrc_to_hb_check ==
    /\ \E t \in Threads :
          /\ Running(t, "hrc_to_hb", "entry")
          /\ LET hrc == threads[t].args[1]
             IN  IF FLt(hrc, Num(20)) \/ FGt(hrc, Num(55))
                 THEN Finish(t, ValueError(<<"HRC must be in the range 20-55 for reliable conversion.">>))
                 ELSE Goto(t, "loop", 1, <<>>)
    /\ UNCHANGED <<HRC_HB_TABLE, GALVANIC_POTENTIALS, pc, call, result, origin, menu_vars>>

\* one iteration of for i in range(len(_HRC_HB_TABLE) - 1), or the return
\* after the loop; the rows are read from the shared table
hrc_to_hb_iteration ==
    /\ \E t \in Threads :
          /\ Running(t, "hrc_to_hb", "loop")
          /\ LET hrc == threads[t].args[1]
                 i == threads[t].i
                 table == HRC_HB_TABLE
             IN  IF i > Len(table) - 1 THEN Finish(t, Ok(Num(table[Len(table)][2])))
                 ELSE LET rc1 == Num(table[i][1])
                          hb1 == Num(table[i][2])
                          rc2 == Num(table[i + 1][1])
                          hb2 == Num(table[i + 1][2])
                      IN  IF FLe(rc1, hrc) /\ FLe(hrc, rc2)
                          THEN IF FSub(rc2, rc1) = Zero THEN Finish(t, ZeroDivisionError)
                               ELSE LET frac == FDiv(FSub(hrc, rc1), FSub(rc2, rc1))
                                    IN  Finish(t, Ok(FAdd(hb1, FMul(frac, FSub(hb2, hb1)))))
                          ELSE Goto(t, "loop", i + 1, <<>>)
    /\ UNCHANGED <<HRC_HB_TABLE, GALVANIC_POTENTIALS, pc, call, result, origin, menu_vars>>

\* if hb < 226 or hb > 545: raise ValueError(...)
hb_to_hrc_check ==
    /\ \E t \in Threads :
          /\ Running(t, "hb_to_hrc", "entry")
          /\ LET hb == threads[t].args[1]
             IN  IF FLt(hb, Num(226)) \/ FGt(hb, Num(545))
                 THEN Finish(t, ValueError(<<"HB must be in the range 226-545 for reliable HRC conversion.">>))
                 ELSE Goto(t, "loop", 1, <<>>)
    /\ UNCHANGED <<HRC_HB_TABLE, GALVANIC_POTENTIALS, pc, call, result, origin, menu_vars>>

hb_to_hrc_iteration ==
    /\ \E t \in Threads :
          /\ Running(t, "hb_to_hrc", "loop")
          /\ LET hb == threads[t].args[1]
                 i == threads[t].i
                 table == HRC_HB_TABLE
             IN  IF i > Len(table) - 1 THEN Finish(t, Ok(Num(table[Len(table)][1])))
                 ELSE LET rc1 == Num(table[i][1])
                          hb1 == Num(table[i][2])
                          rc2 == Num(table[i + 1][1])
                          hb2 == Num(table[i + 1][2])
                      IN  IF FLe(hb1, hb) /\ FLe(hb, hb2)
                          THEN IF FSub(hb2, hb1) = Zero THEN Finish(t, ZeroDivisionError)
                               ELSE LET frac == FDiv(FSub(hb, hb1), FSub(hb2, hb1))
                                    IN  Finish(t, Ok(FAdd(rc1, FMul(frac, FSub(rc2, rc1)))))
                          ELSE Goto(t, "loop", i + 1, <<>>)
    /\ UNCHANGED <<HRC_HB_TABLE, GALVANIC_POTENTIALS, pc, call, result, origin, menu_vars>>

\* a_key = metal_a.lower().replace(" ", "_"); b_key likewise: locals only
galvanic_keys ==
    /\ \E t \in Threads :
          /\ Running(t, "galvanic_potential_diff", "entry")
          /\ Goto(t, "check_a", 0,
                  <<canonical_key(threads[t].args[1]), canonical_key(threads[t].args[2])>>)
    /\ UNCHANGED <<HRC_HB_TABLE, GALVANIC_POTENTIALS, pc, call, result, origin, menu_vars>>

\* if a_key not in _GALVANIC_POTENTIALS: raise ValueError(...)
galvanic_check_a ==
    /\ \E t \in Threads :
          /\ Running(t, "galvanic_potential_diff", "check_a")
          /\ IF ~dict_contains(GALVANIC_POTENTIALS, threads[t].loc[1])
             THEN Finish(t, unknown_metal(GALVANIC_POTENTIALS, threads[t].args[1]))
             ELSE Goto(t, "check_b", 0, threads[t].loc)
    /\ UNCHANGED <<HRC_HB_TABLE, GALVANIC_POTENTIALS, pc, call, result, origin, menu_vars>>

\* if b_key not in _GALVANIC_POTENTIALS: raise ValueError(...)
galvanic_check_b ==
    /\ \E t \in Threads :
          /\ Running(t, "galvanic_potential_diff", "check_b")
          /\ IF ~dict_contains(GALVANIC_POTENTIALS, threads[t].loc[2])
             THEN Finish(t, unknown_metal(GALVANIC_POTENTIALS, threads[t].args[2]))
             ELSE Goto(t, "read_a", 0, threads[t].loc)
    /\ UNCHANGED <<HRC_HB_TABLE, GALVANIC_POTENTIALS, pc, call, result, origin, menu_vars>>

\* faulty variant: the potential is taken out of the shared dict with pop()
galvanic_read_a_popping ==
    /\ \E t \in Threads :
          /\ Running(t, "galvanic_potential_diff", "read_a")
          /\ IF ~dict_contains(GALVANIC_POTENTIALS, threads[t].loc[1])
             THEN /\ Finish(t, KeyError(threads[t].loc[1]))
                  /\ UNCHANGED GALVANIC_POTENTIALS
             ELSE /\ Goto(t, "read_b", 0,
                          threads[t].loc \o <<dict_getitem(GALVANIC_POTENTIALS, threads[t].loc[1])>>)
                  /\ GALVANIC_POTENTIALS' =
                        dict_without(GALVANIC_POTENTIALS, {threads[t].loc[1]})
    /\ UNCHANGED <<HRC_HB_TABLE, pc, call, result, origin, menu_vars>>

\* va = _GALVANIC_POTENTIALS[a_key]
galvanic_read_a ==
    /\ \E t \in Threads :
          /\ Running(t, "galvanic_potential_diff", "read_a")
          /\ IF ~dict_contains(GALVANIC_POTENTIALS, threads[t].loc[1])
             THEN Finish(t, KeyError(threads[t].loc[1]))
             ELSE Goto(t, "read_b", 0,
                       threads[t].loc \o <<dict_getitem(GALVANIC_POTENTIALS, threads[t].loc[1])>>)
    /\ UNCHANGED <<HRC_HB_TABLE, GALVANIC_POTENTIALS, pc, call, result, origin, menu_vars>>

\* vb = _GALVANIC_POTENTIALS[b_key]
galvanic_read_b ==
    /\ \E t \in Threads :
          /\ Running(t, "galvanic_potential_diff", "read_b")
          /\ IF ~dict_contains(GALVANIC_POTENTIALS, threads[t].loc[2])
             THEN Finish(t, KeyError(threads[t].loc[2]))
             ELSE Goto(t, "return", 0,
                       threads[t].loc \o <<dict_getitem(GALVANIC_POTENTIALS, threads[t].loc[2])>>)
    /\ UNCHANGED <<HRC_HB_TABLE, GALVANIC_POTENTIALS, pc, call, result, origin, menu_vars>>

\* diff = abs(va - vb); anode, cathode by va < vb; return diff, anode, cathode
galvanic_return ==
    /\ \E t \in Threads :
          /\ Running(t, "galvanic_potential_diff", "return")
          /\ LET metal_a == threads[t].args[1]
                 metal_b == threads[t].args[2]
                 va == threads[t].loc[3]
                 vb == threads[t].loc[4]
                 diff == FAbs(FSub(va, vb))
                 anode == IF FLt(va, vb) THEN metal_a ELSE metal_b
                 cathode == IF FLt(va, vb) THEN metal_b ELSE metal_a
             IN  Finish(t, Ok(<<diff, anode, cathode>>))
    /\ UNCHANGED <<HRC_HB_TABLE, GALVANIC_POTENTIALS, pc, call, result, origin, menu_vars>>

\* the caller has taken the outcome of its call and may call again
thread_idle ==
    /\ \E t \in Threads :
          /\ threads[t].at = "done"
          /\ threads' = [threads EXCEPT ![t] = Idle]
    /\ UNCHANGED <<HRC_HB_TABLE, GALVANIC_POTENTIALS, pc, call, result, origin, menu_vars>>

NextThreads ==
    \/ thread_call
    \/ hrc_to_hb_check
    \/ hrc_to_hb_iteration
    \/ hb_to_hrc_check
    \/ hb_to_hrc_iteration
    \/ galvanic_keys
    \/ galvanic_check_a
    \/ galvanic_check_b
    \/ galvanic_read_a
    \/ galvanic_read_b
    \/ galvanic_return
    \/ thread_idle

SpecThreads == Init /\ [][NextThreads]_vars

----------------------------------------------------------------------------
(* menu.py: the interactive program.  A step reads one line of standard    *)
(* input (or meets its end) and runs the program up to its next read.  Of  *)
(* a formula call the menu layer observes whether it raises ValueError;    *)
(* the other exceptions of the library are outside this part of the model. *)

DIGITS == <<"0", "1", "2", "3", "4", "5", "6", "7", "8", "9">>

\* str.strip(), where the only whitespace is the space
RECURSIVE str_strip(_)
str_strip(s) ==
    IF s = <<>> THEN s
    ELSE IF Head(s) = " " THEN str_strip(Tail(s))
    ELSE IF s[Len(s)] = " " THEN str_strip(SubSeq(s, 1, Len(s) - 1))
    ELSE s

\* the number a string of decimal digits writes
RECURSIVE digits_value(_)
digits_value(s) ==
    IF s = <<>> THEN 0
    ELSE 10 * digits_value(SubSeq(s, 1, Len(s) - 1))
         + (CHOOSE k \in 1..Len(DIGITS) : DIGITS[k] = s[Len(s)]) - 1

all_digits(s) == \A i \in 1..Len(s) : \E k \in 1..Len(DIGITS) : DIGITS[k] = s[i]

RECURSIVE Pow10(_)
Pow10(k) == IF k = 0 THEN 1 ELSE 10 * Pow10(k - 1)

\* the sign and the digits of a stripped numeric literal
negative(t) == t # <<>> /\ Head(t) = "-"
unsigned(t) == IF t # <<>> /\ Head(t) \in {"+", "-"} THEN Tail(t) ELSE t

int_of_digits(text, minus, body) ==
    IF body = <<>> \/ ~all_digits(body)
    THEN ValueError(<<"invalid literal for int() with base 10: ", text>>)
    ELSE Ok(IF minus THEN -digits_value(body) ELSE digits_value(body))

\* int(text): spaces around, an optional sign, one or more decimal digits
int_of_str(text) ==
    int_of_digits(text, negative(str_strip(text)), unsigned(str_strip(text)))

\* the position of the first decimal point in a literal (past the end if
\* there is none)
point(body) ==
    IF \E i \in 1..Len(body) : body[i] = "."
    THEN CHOOSE i \in 1..Len(body) : body[i] = "." /\ \A j \in 1..(i - 1) : body[j] # "."
    ELSE Len(body) + 1

float_of_body(text, minus, body) ==
    LET whole == SubSeq(body, 1, point(body) - 1)
        fraction == SubSeq(body, point(body) + 1, Len(body))
        n == digits_value(whole \o fraction)
    IN  IF whole \o fraction = <<>> \/ ~all_digits(whole \o fraction)
        THEN ValueError(<<"could not convert string to float: ", text>>)
        ELSE Ok(Float(IF minus THEN -n ELSE n, Pow10(Len(fraction))))

\* float(text): spaces around, an optional sign, decimal digits with at most
\* one point and at least one digit (exponents, "inf" and "nan" are not among
\* the lines the model enters)
float_of_str(text) ==
    float_of_body(text, negative(str_strip(text)), unsigned(str_strip(text)))

\* a read: a line of text, or the end of standard input
Line(text) == [eof |-> FALSE, text |-> text, read |-> TRUE]
EndOfInput == [eof |-> TRUE, text |-> <<>>, read |-> TRUE]

\* a prompt function prints msg and prompts again
Retry(msg) == [kind |-> "retry", msg |-> msg]

\* faulty variant: an entry that is no choice is taken as 0
_show_menu_back(options, text) ==
    LET c == int_of_str(text)
    IN  IF Returned(c) /\ 0 <= c.val /\ c.val <= Len(options) THEN c
        ELSE Ok(0)

\* _show_menu, for one entry: if 0 <= choice <= len(options): return choice;
\* otherwise, and in the except clause, the message is printed and the loop
\* goes on
_show_menu(options, text) ==
    LET c == int_of_str(text)
    IN  IF Returned(c) /\ 0 <= c.val /\ c.val <= Len(options) THEN c
        ELSE Retry("invalid_choice")

numeric_or_retry(v) == IF Returned(v) THEN v ELSE Retry("not_numeric")

\* _float, for one entry
_float(text) == numeric_or_retry(float_of_str(text))

positive_or_retry(v) ==
    IF Returned(v) /\ ~FGt(v.val, Zero) THEN Retry("not_positive") ELSE v

\* _positive_float, for one entry
_positive_float(text) == positive_or_retry(_float(text))

\* _opt_float of the carbon-equivalent option: val = _input(prompt).strip();
\* float(val) if val else 0.0, with no except clause
_opt_float(text) ==
    IF str_strip(text) = <<>> THEN Ok(Zero) ELSE float_of_str(str_strip(text))

\* int(_positive_float(...)): truncation
int_of(v) == IF Returned(v) THEN Ok(Num(v.val[1] \div v.val[2])) ELSE v

\* _float(...) or 2
or_2(v) == IF Returned(v) /\ v.val = Zero THEN Ok(Num(2)) ELSE v

\* the input functions an option calls, by the way it calls them
read_input(kind, text) ==
    CASE kind = "float" -> _float(text)
      [] kind = "positive" -> _positive_float(text)
      [] kind = "count" -> int_of(_positive_float(text))
      [] kind = "float_or_2" -> or_2(_float(text))
      [] kind = "opt" -> _opt_float(text)
      [] kind = "text" -> Ok(str_strip(text))

\* a branch of a sub-menu: the formula it calls, the inputs it reads before
\* the call, and whether the call is inside try/except ValueError
Option(fn, prompts, caught) == [fn |-> fn, prompts |-> prompts, caught |-> caught]

\* menu_mechanical: the branches of its loop, in the order of its options list
MECHANICAL_OPTIONS ==
    <<
       Option("brinell_to_tensile", <<"positive">>, FALSE),
       Option("vickers_to_tensile", <<"positive">>, FALSE),
       Option("hrc_to_hb", <<"float">>, TRUE),
       Option("hb_to_hrc", <<"float">>, TRUE),
       Option("yield_strength", <<"float", "positive">>, FALSE),
       Option("percent_elongation", <<"positive", "float">>, FALSE),
       Option("percent_reduction_area", <<"positive", "float">>, FALSE),
       Option("true_stress", <<"float", "float">>, FALSE),
       Option("true_strain", <<"float">>, TRUE),
       Option("modulus_of_resilience", <<"positive", "positive">>, FALSE),
       Option("basquin_fatigue_life", <<"positive", "positive", "float">>, TRUE),
       Option("basquin_stress_amplitude", <<"positive", "positive", "float">>, FALSE),
       Option("charpy_toughness", <<"float", "positive">>, FALSE)
    >>

\* menu_thermal: the branches of its loop, in the order of its options list
THERMAL_OPTIONS ==
    <<
       Option("fourier_heat_flux", <<"positive", "float", "positive">>, FALSE),
       Option("linear_thermal_expansion", <<"float", "positive", "float">>, FALSE),
       Option("volumetric_thermal_expansion", <<"float", "positive", "float">>, FALSE),
       Option("composite_slab_heat_flux", <<"float", "count">>, FALSE),
       Option("newton_cooling", <<"positive", "positive", "float", "float">>, FALSE),
       Option("thermal_diffusivity", <<"positive", "positive", "positive">>, FALSE)
    >>

\* menu_phase: the branches of its loop, in the order of its options list
PHASE_OPTIONS ==
    <<
       Option("lever_rule", <<"float", "float", "float">>, TRUE),
       Option("gibbs_phase_rule", <<"count", "count">>, TRUE),
       Option("avrami_fraction", <<"float", "float", "float">>, TRUE),
       Option("carbon_equivalent", <<"opt", "opt", "opt", "opt", "opt", "opt", "opt">>, FALSE),
       Option("scheil_equation", <<"positive", "float", "float">>, TRUE)
    >>

\* menu_corrosion: the branches of its loop, in the order of its options list
CORROSION_OPTIONS ==
    <<
       Option("corrosion_rate_mpy", <<"float", "positive", "positive", "positive">>, FALSE),
       Option("corrosion_rate_mmpy", <<"float", "positive", "positive", "positive">>, FALSE),
       Option("pilling_bedworth_ratio", <<"positive", "positive", "positive", "positive", "positive">>, FALSE),
       Option("galvanic_potential_diff", <<"text", "text">>, TRUE),
       Option("parabolic_oxide_thickness", <<"float", "float">>, TRUE)
    >>

\* menu_casting: the branches of its loop, in the order of its options list
CASTING_OPTIONS ==
    <<
       Option("chvorinov_solidification_time", <<"positive", "positive", "positive", "float_or_2">>, FALSE),
       Option("casting_modulus", <<"positive", "positive">>, FALSE),
       Option("shrinkage_allowance", <<"positive", "float">>, FALSE),
       Option("fluidity_index", <<"positive", "positive", "float", "positive">>, FALSE),
       Option("newtonian_cooling_rate", <<"positive", "positive", "positive", "positive", "positive", "float", "float">>, FALSE)
    >>

\* menu_crystallography: the branches of its loop, in the order of its options list
CRYSTALLOGRAPHY_OPTIONS ==
    <<
       Option("apf_bcc", <<"positive">>, FALSE),
       Option("apf_fcc", <<"positive">>, FALSE),
       Option("apf_hcp", <<"positive">>, FALSE),
       Option("apf_simple_cubic", <<"positive">>, FALSE),
       Option("planar_density", <<"float", "positive">>, FALSE),
       Option("linear_density", <<"float", "positive">>, FALSE),
       Option("astm_grain_count", <<"float">>, FALSE),
       Option("astm_grain_number_from_count", <<"positive">>, FALSE),
       Option("hall_petch", <<"float", "float", "positive">>, FALSE),
       Option("burgers_vector_magnitude", <<"positive", "float", "float", "float">>, FALSE)
    >>

\* menu_composites: the branches of its loop, in the order of its options list
COMPOSITES_OPTIONS ==
    <<
       Option("rule_of_mixtures_longitudinal", <<"positive", "float", "positive">>, FALSE),
       Option("rule_of_mixtures_transverse", <<"positive", "float", "positive">>, FALSE),
       Option("composite_density", <<"positive", "float", "positive">>, FALSE),
       Option("critical_fiber_length", <<"positive", "positive", "positive">>, FALSE),
       Option("halpin_tsai", <<"positive", "positive", "float", "float_or_2">>, FALSE)
    >>

\* menu_stress_strain: the branches of its loop, in the order of its options list
STRESS_STRAIN_OPTIONS ==
    <<
       Option("hookes_law_stress", <<"positive", "float">>, FALSE),
       Option("hookes_law_strain", <<"positive", "float">>, FALSE),
       Option("poisson_strain", <<"float", "float">>, FALSE),
       Option("shear_modulus", <<"positive", "float">>, FALSE),
       Option("bulk_modulus", <<"positive", "float">>, TRUE),
       Option("von_mises_stress", <<"float", "float", "float">>, FALSE),
       Option("factor_of_safety", <<"positive", "float">>, TRUE),
       Option("stress_concentration", <<"positive", "float">>, FALSE),
       Option("creep_rate_steady_state", <<"float", "float", "float", "positive", "positive">>, FALSE)
    >>

CATEGORIES ==
    << <<"Mechanical Properties", "menu_mechanical">>,
       <<"Thermal Properties", "menu_thermal">>,
       <<"Phase Transformations", "menu_phase">>,
       <<"Corrosion & Degradation", "menu_corrosion">>,
       <<"Casting & Solidification", "menu_casting">>,
       <<"Crystallography & Defects", "menu_crystallography">>,
       <<"Composite Materials", "menu_composites">>,
       <<"Stress & Strain Analysis", "menu_stress_strain">> >>

\* the inputs an option reads, given those read so far: the composite-slab
\* option reads a thickness and a conductivity for each of its n layers
prompts_of(opt, vs) ==
    IF opt.fn = "composite_slab_heat_flux" /\ Len(vs) >= 2
    THEN opt.prompts \o [i \in 1..(2 * vs[2][1]) |-> "positive"]
    ELSE opt.prompts

\* layers.append((thickness, k)) for each pair of inputs after the first two
slab_layers(vs) == [i \in 1..((Len(vs) - 2) \div 2) |-> <<vs[2 * i + 1], vs[2 * i + 2]>>]

\* whether the call of fn with the inputs v raises ValueError: the guards of
\* mechanical.py
mechanical_raises(fn, v) ==
    CASE fn = "brinell_to_tensile" -> FLe(v[1], Zero)
      [] fn = "vickers_to_tensile" -> FLe(v[1], Zero)
      [] fn = "hrc_to_hb" -> FLt(v[1], Num(20)) \/ FGt(v[1], Num(55))
      [] fn = "hb_to_hrc" -> FLt(v[1], Num(226)) \/ FGt(v[1], Num(545))
      [] fn = "yield_strength" -> FLe(v[2], Zero)
      [] fn = "percent_elongation" -> FLe(v[1], Zero)
      [] fn = "percent_reduction_area" -> FLe(v[1], Zero)
      [] fn = "true_stress" -> FALSE
      [] fn = "true_strain" -> FLe(v[1], Num(-1))
      [] fn = "modulus_of_resilience" -> FLe(v[2], Zero)
      [] fn = "basquin_fatigue_life" ->
            FLe(v[2], Zero) \/ FLe(v[1], Zero) \/ FGe(v[3], Zero)
      [] fn = "basquin_stress_amplitude" -> FLe(v[2], Zero)
      [] fn = "charpy_toughness" -> FLe(v[2], Zero)

\* the guards of thermal.py
thermal_raises(fn, v) ==
    CASE fn = "fourier_heat_flux" -> FLe(v[3], Zero) \/ FLe(v[1], Zero)
      [] fn = "linear_thermal_expansion" -> FLe(v[2], Zero)
      [] fn = "volumetric_thermal_expansion" -> FLe(v[2], Zero)
      [] fn = "composite_slab_heat_flux" ->
            composite_slab_heat_flux(v[1], slab_layers(v)).kind = "ValueError"
      [] fn = "newton_cooling" -> FLe(v[2], Zero)
      [] fn = "thermal_diffusivity" ->
            FLe(v[2], Zero) \/ FLe(v[3], Zero) \/ FLe(v[1], Zero)

\* the guards of phase.py
phase_raises(fn, v) ==
    CASE fn = "lever_rule" -> FSub(v[3], v[2]) = Zero
      [] fn = "gibbs_phase_rule" ->
            v[1][1] < 1 \/ v[2][1] < 1 \/ v[1][1] - v[2][1] + 2 < 0
      [] fn = "avrami_fraction" -> FLt(v[2], Zero) \/ FLt(v[1], Zero)
      [] fn = "carbon_equivalent" -> FALSE
      [] fn = "scheil_equation" ->
            FLt(v[3], Zero) \/ FGe(v[3], One) \/ FLe(v[1], Zero)

\* the guards of corrosion.py
corrosion_raises(fn, v) ==
    CASE fn = "corrosion_rate_mpy" ->
            FLe(v[3], Zero) \/ FLe(v[4], Zero) \/ FLe(v[2], Zero)
      [] fn = "corrosion_rate_mmpy" ->
            FLe(v[3], Zero) \/ FLe(v[4], Zero) \/ FLe(v[2], Zero)
      [] fn = "pilling_bedworth_ratio" -> FLe(FMul(FMul(v[3], v[4]), v[5]), Zero)
      [] fn = "galvanic_potential_diff" ->
            \/ ~dict_contains(GALVANIC_POTENTIALS, canonical_key(v[1]))
            \/ ~dict_contains(GALVANIC_POTENTIALS, canonical_key(v[2]))
      [] fn = "parabolic_oxide_thickness" -> FLt(v[1], Zero) \/ FLt(v[2], Zero)

\* the guards of casting.py
casting_raises(fn, v) ==
    CASE fn = "chvorinov_solidification_time" ->
            FLe(v[3], Zero) \/ FLe(v[2], Zero) \/ FLe(v[1], Zero)
      [] fn = "casting_modulus" -> FLe(v[2], Zero)
      [] fn = "shrinkage_allowance" -> FLe(v[1], Zero)
      [] fn = "fluidity_index" -> FLe(v[4], Zero)
      [] fn = "newtonian_cooling_rate" ->
            FLe(v[5], Zero) \/ FLe(v[3], Zero) \/ FLe(v[4], Zero)

\* the guards of crystallography.py
crystallography_raises(fn, v) ==
    CASE fn \in {"apf_bcc", "apf_fcc", "apf_hcp", "apf_simple_cubic"} -> FLe(v[1], Zero)
      [] fn = "planar_density" -> FLe(v[2], Zero)
      [] fn = "linear_density" -> FLe(v[2], Zero)
      [] fn = "astm_grain_count" -> FALSE
      [] fn = "astm_grain_number_from_count" -> FLe(v[1], Zero)
      [] fn = "hall_petch" -> FLe(v[3], Zero)
      [] fn = "burgers_vector_magnitude" -> FLe(v[1], Zero)

\* the guards of composites.py
composites_raises(fn, v) ==
    CASE fn = "rule_of_mixtures_longitudinal" -> ~(FLe(Zero, v[2]) /\ FLe(v[2], One))
      [] fn = "rule_of_mixtures_transverse" ->
            ~(FLe(Zero, v[2]) /\ FLe(v[2], One)) \/ FLe(v[1], Zero) \/ FLe(v[3], Zero)
      [] fn = "composite_density" -> ~(FLe(Zero, v[2]) /\ FLe(v[2], One))
      [] fn = "critical_fiber_length" -> FLe(v[3], Zero) \/ FLe(v[2], Zero)
      [] fn = "halpin_tsai" ->
            ~(FLe(Zero, v[3]) /\ FLe(v[3], One)) \/ FLe(v[1], Zero) \/ FLe(v[2], Zero)

\* the guards of stress_strain.py
stress_strain_raises(fn, v) ==
    CASE fn = "hookes_law_stress" -> FALSE
      [] fn = "hookes_law_strain" -> FLe(v[1], Zero)
      [] fn = "poisson_strain" -> FALSE
      [] fn = "shear_modulus" -> FAdd(One, v[2]) = Zero
      [] fn = "bulk_modulus" -> FMul(Num(3), FSub(One, FMul(Num(2), v[2]))) = Zero
      [] fn = "von_mises_stress" -> FALSE
      [] fn = "factor_of_safety" -> v[2] = Zero
      [] fn = "stress_concentration" -> FALSE
      [] fn = "creep_rate_steady_state" -> FLe(v[5], Zero)

\* the options of a sub-menu and the guards of the module it calls
options_of(name) ==
    CASE name = "menu_mechanical" -> MECHANICAL_OPTIONS
      [] name = "menu_thermal" -> THERMAL_OPTIONS
      [] name = "menu_phase" -> PHASE_OPTIONS
      [] name = "menu_corrosion" -> CORROSION_OPTIONS
      [] name = "menu_casting" -> CASTING_OPTIONS
      [] name = "menu_crystallography" -> CRYSTALLOGRAPHY_OPTIONS
      [] name = "menu_composites" -> COMPOSITES_OPTIONS
      [] name = "menu_stress_strain" -> STRESS_STRAIN_OPTIONS

raises(name, fn, v) ==
    CASE name = "menu_mechanical" -> mechanical_raises(fn, v)
      [] name = "menu_thermal" -> thermal_raises(fn, v)
      [] name = "menu_phase" -> phase_raises(fn, v)
      [] name = "menu_corrosion" -> corrosion_raises(fn, v)
      [] name = "menu_casting" -> casting_raises(fn, v)
      [] name = "menu_crystallography" -> crystallography_raises(fn, v)
      [] name = "menu_composites" -> composites_raises(fn, v)
      [] name = "menu_stress_strain" -> stress_strain_raises(fn, v)

\* lines entered at "Enter choice": every option number of the longest menu,
\* and entries that are no choice
ChoiceLines ==
    { <<"0">>, <<"1">>, <<"2">>, <<"3">>, <<"4">>, <<"5">>, <<"6">>, <<"7">>,
      <<"8">>, <<"9">>, <<"1", "0">>, <<"1", "1">>, <<"1", "2">>, <<"1", "3">>,
      <<"1", "4">>, <<"-", "1">>, <<"1", ".", "5">>, <<" ", "2", " ">>,
      <<"x">>, <<>> }

\* lines entered at a prompt for a number
ValueLines ==
    { <<"-", "1">>, <<"0">>, <<"0", ".", "5">>, <<"2">>, <<"x">>, <<>> }

\* lines entered at the prompts for a metal name
MetalLines ==
    { <<"z", "i", "n", "c">>, <<" ", "G", "o", "l", "d">>, <<"x">> }

Lines(kind) == IF kind = "text" THEN MetalLines ELSE ValueLines

\* a line is read: _input returns it
Read(text) ==
    /\ unread > 0
    /\ unread' = unread - 1
    /\ line' = Line(text)

\* faulty variant: choice c calls the function of the entry after the c-th
main_menu_choice_next(c) ==
    IF ~Returned(c)
    THEN /\ choice' = NoChoice
         /\ shown' = c.msg
         /\ UNCHANGED <<menu, status>>
    ELSE IF c.val = 0
    THEN /\ choice' = c
         /\ shown' = "goodbye"
         /\ status' = "returned"
         /\ UNCHANGED menu
    ELSE /\ choice' = c
         /\ shown' = "menu"
         /\ menu' = CATEGORIES[(c.val % Len(CATEGORIES)) + 1][2]
         /\ UNCHANGED status

\* main_menu after _show_menu: 0 ends the program with "Goodbye", c calls the
\* sub-menu function of CATEGORIES[c - 1]
main_menu_choice(c) ==
    IF ~Returned(c)
    THEN /\ choice' = NoChoice
         /\ shown' = c.msg
         /\ UNCHANGED <<menu, status>>
    ELSE IF c.val = 0
    THEN /\ choice' = c
         /\ shown' = "goodbye"
         /\ status' = "returned"
         /\ UNCHANGED menu
    ELSE /\ choice' = c
         /\ shown' = "menu"
         /\ menu' = CATEGORIES[c.val][2]
         /\ UNCHANGED status

\* main_menu: one read of its loop
main_menu ==
    /\ status = "running"
    /\ menu = "main_menu"
    /\ \E text \in ChoiceLines :
          /\ Read(text)
          /\ main_menu_choice(_show_menu(CATEGORIES, text))
    /\ formula' = NoFormula
    /\ UNCHANGED <<option, values>>
    /\ UNCHANGED <<HRC_HB_TABLE, GALVANIC_POTENTIALS, pc, call, result, origin, threads>>

\* a sub-menu after _show_menu: if c == 0: return; otherwise the branch of c
\* starts to read its inputs
sub_menu_branch(c) ==
    IF ~Returned(c)
    THEN /\ choice' = NoChoice
         /\ shown' = c.msg
         /\ UNCHANGED <<menu, option>>
    ELSE IF c.val = 0
    THEN /\ choice' = c
         /\ shown' = "menu"
         /\ menu' = "main_menu"
         /\ UNCHANGED option
    ELSE /\ choice' = c
         /\ shown' = "prompt"
         /\ option' = c.val
         /\ UNCHANGED menu

\* a sub-menu at "Enter choice"
sub_menu_choice(name) ==
    /\ option = 0
    /\ \E text \in ChoiceLines :
          /\ Read(text)
          /\ sub_menu_branch(_show_menu(options_of(name), text))
    /\ formula' = NoFormula
    /\ UNCHANGED <<values, status>>

\* the formula is called: its result is printed, or the message of a caught
\* ValueError; a ValueError outside try/except ends the program with a
\* traceback
formula_called(opt, vs, raised) ==
    /\ formula' = [fn |-> opt.fn, raised |-> raised]
    /\ IF ~raised
       THEN /\ shown' = "result"
            /\ option' = 0
            /\ values' = <<>>
            /\ UNCHANGED status
       ELSE IF opt.caught
       THEN /\ shown' = "error"
            /\ option' = 0
            /\ values' = <<>>
            /\ UNCHANGED status
       ELSE /\ shown' = "traceback"
            /\ status' = "traceback"
            /\ values' = vs
            /\ UNCHANGED option

\* an input was read: the branch prompts for the next one, or calls its
\* formula after the last
input_accepted(name, opt, vs) ==
    IF Len(vs) < Len(prompts_of(opt, vs))
    THEN /\ shown' = "prompt"
         /\ values' = vs
         /\ formula' = NoFormula
         /\ UNCHANGED <<option, status>>
    ELSE formula_called(opt, vs, raises(name, opt.fn, vs))

\* the input function returned v, prompts again, or raised
input_read(name, opt, v) ==
    IF v.kind = "retry"
    THEN /\ shown' = v.msg
         /\ formula' = NoFormula
         /\ UNCHANGED <<option, values, status>>
    ELSE IF v.kind = "ValueError"
    THEN /\ shown' = "traceback"
         /\ status' = "traceback"
         /\ formula' = NoFormula
         /\ UNCHANGED <<option, values>>
    ELSE input_accepted(name, opt, Append(values, v.val))

\* a branch of a sub-menu reads its next input
sub_menu_input(name) ==
    /\ option > 0
    /\ \E text \in Lines(prompts_of(options_of(name)[option], values)[Len(values) + 1]) :
          /\ Read(text)
          /\ input_read(name, options_of(name)[option],
                        read_input(prompts_of(options_of(name)[option], values)[Len(values) + 1],
                                   text))
    /\ choice' = NoChoice
    /\ UNCHANGED menu

\* one step of the sub-menu function name
sub_menu(name) ==
    /\ status = "running"
    /\ sub_menu_choice(name) \/ sub_menu_input(name)
    /\ UNCHANGED <<HRC_HB_TABLE, GALVANIC_POTENTIALS, pc, call, result, origin, threads>>

menu_mechanical ==
    /\ menu = "menu_mechanical"
    /\ sub_menu("menu_mechanical")

menu_thermal ==
    /\ menu = "menu_thermal"
    /\ sub_menu("menu_thermal")

menu_phase ==
    /\ menu = "menu_phase"
    /\ sub_menu("menu_phase")

menu_corrosion ==
    /\ menu = "menu_corrosion"
    /\ sub_menu("menu_corrosion")

menu_casting ==
    /\ menu = "menu_casting"
    /\ sub_menu("menu_casting")

menu_crystallography ==
    /\ menu = "menu_crystallography"
    /\ sub_menu("menu_crystallography")

menu_composites ==
    /\ menu = "menu_composites"
    /\ sub_menu("menu_composites")

menu_stress_strain ==
    /\ menu = "menu_stress_strain"
    /\ sub_menu("menu_stress_strain")

\* faulty variant: at the end of standard input the prompt is repeated
input_eof_reprompt ==
    /\ status = "running"
    /\ line' = EndOfInput
    /\ shown' = "prompt"
    /\ choice' = NoChoice
    /\ formula' = NoFormula
    /\ UNCHANGED <<menu, option, values, status, unread>>
    /\ UNCHANGED <<HRC_HB_TABLE, GALVANIC_POTENTIALS, pc, call, result, origin, threads>>

\* _input at the end of standard input: except EOFError: sys.exit(0)
input_eof ==
    /\ status = "running"
    /\ line' = EndOfInput
    /\ status' = "exit_0"
    /\ shown' = "nothing"
    /\ choice' = NoChoice
    /\ formula' = NoFormula
    /\ UNCHANGED <<menu, option, values, unread>>
    /\ UNCHANGED <<HRC_HB_TABLE, GALVANIC_POTENTIALS, pc, call, result, origin, threads>>

NextMenu ==
    \/ main_menu
    \/ menu_mechanical
    \/ menu_thermal
    \/ menu_phase
    \/ menu_corrosion
    \/ menu_casting
    \/ menu_crystallography
    \/ menu_composites
    \/ menu_stress_strain
    \/ input_eof

SpecMenu == Init /\ [][NextMenu]_vars

\* the interpreter keeps running the program, and a read of standard input
\* ends with a line or with the end of the input
SpecMenuFair == SpecMenu /\ WF_vars(NextMenu)

----------------------------------------------------------------------------
(* Properties: hardness conversion *)

Half == <<1, 2>>
TableRows == 1..Len(HRC_HB_TABLE)
Brackets == 1..(Len(HRC_HB_TABLE) - 1)
HrcInRange(x) == ~IsNaN(x) /\ x[1] >= 20 * x[2] /\ x[1] <= 55 * x[2]
HbInRange(x) == ~IsNaN(x) /\ x[1] >= 226 * x[2] /\ x[1] <= 545 * x[2]
\* hrc < 20 or hrc > 55, and hb < 226 or hb > 545: false for NaN
HrcOutside(x) == ~IsNaN(x) /\ (x[1] < 20 * x[2] \/ x[1] > 55 * x[2])
HbOutside(x) == ~IsNaN(x) /\ (x[1] < 226 * x[2] \/ x[1] > 545 * x[2])
Called(fn) == pc = "done" /\ call.fn = fn

\* C1: hrc_to_hb(hrc) raises ValueError if and only if hrc < 20 or hrc > 55,
\* hb_to_hrc(hb) raises if and only if hb < 226 or hb > 545, and every query in
\* the closed range (endpoints included) returns a value.
C1_RangeChecks ==
    /\ Called("hrc_to_hb") =>
          /\ (result.kind = "ValueError") <=> HrcOutside(call.args[1])
          /\ HrcInRange(call.args[1]) => Returned(result)
    /\ Called("hb_to_hrc") =>
          /\ (result.kind = "ValueError") <=> HbOutside(call.args[1])
          /\ HbInRange(call.args[1]) => Returned(result)

\* the upper endpoint HB = 545 has been converted and a value was returned
C1_Witness ==
    /\ Called("hb_to_hrc")
    /\ call.args[1] = Num(545)
    /\ origin = <<>>
    /\ Returned(result)

\* C2: for every hrc in [20, 55] the value hrc_to_hb(hrc) lies in [226, 545],
\* so hb_to_hrc accepts it, and hb_to_hrc(hrc_to_hb(hrc)) is within 0.5 of hrc.
C2_RoundTrip ==
    /\ (Called("hrc_to_hb") /\ HrcInRange(call.args[1])) =>
          Returned(result) /\ HbInRange(result.val)
    /\ (Called("hb_to_hrc") /\ origin # <<>> /\ HrcInRange(origin[1])) =>
          /\ Returned(result)
          /\ FLe(RAbs(RSub(result.val, origin[1])), Half)

\* a query between two knots has been converted and back, and the round trip
\* did not reproduce it exactly
C2_Witness ==
    /\ Called("hb_to_hrc")
    /\ origin # <<>>
    /\ HrcInRange(origin[1])
    /\ origin[1][2] # 1
    /\ Returned(result)
    /\ result.val # origin[1]

\* C3: the table is strictly increasing in both columns, starts at (20, 226)
\* and ends at (55, 545); no bracket has zero width and no hardness conversion
\* divides by zero.
C3_TableMonotonic ==
    /\ \A i \in Brackets :
          /\ HRC_HB_TABLE[i][1] < HRC_HB_TABLE[i + 1][1]
          /\ HRC_HB_TABLE[i][2] < HRC_HB_TABLE[i + 1][2]
    /\ HRC_HB_TABLE[1] = <<20, 226>>
    /\ HRC_HB_TABLE[Len(HRC_HB_TABLE)] = <<55, 545>>
    /\ (Called("hrc_to_hb") \/ Called("hb_to_hrc")) =>
          result.kind # "ZeroDivisionError"

\* a query strictly inside the narrowest HB bracket, (23, 243)..(24, 247), has
\* been interpolated
C3_Witness ==
    /\ Called("hb_to_hrc")
    /\ call.args[1] = Num(245)
    /\ Returned(result)
    /\ FLt(Num(23), result.val) /\ FLt(result.val, Num(24))

\* the interpolation formula of the claim, in float arithmetic
Interpolate(x, x1, y1, x2, y2) ==
    FAdd(y1, FMul(FDiv(FSub(x, x1), FSub(x2, x1)), FSub(y2, y1)))

\* C4: for hrc in [20, 55], hrc_to_hb(hrc) is the linear interpolation between
\* a consecutive table pair that brackets hrc, and symmetrically for hb_to_hrc;
\* every tabulated HRC maps exactly to its tabulated HB and back, and the last
\* entry (55, 545) is returned exactly for hrc = 55 and hb = 545.
C4_Interpolation ==
    /\ (Called("hrc_to_hb") /\ HrcInRange(call.args[1])) =>
          LET hrc == call.args[1] IN
          /\ Returned(result)
          /\ \E i \in Brackets :
                /\ FLe(Num(HRC_HB_TABLE[i][1]), hrc)
                /\ FLe(hrc, Num(HRC_HB_TABLE[i + 1][1]))
                /\ result.val = Interpolate(hrc,
                      Num(HRC_HB_TABLE[i][1]), Num(HRC_HB_TABLE[i][2]),
                      Num(HRC_HB_TABLE[i + 1][1]), Num(HRC_HB_TABLE[i + 1][2]))
          /\ \A i \in TableRows :
                hrc = Num(HRC_HB_TABLE[i][1]) => result.val = Num(HRC_HB_TABLE[i][2])
    /\ (Called("hb_to_hrc") /\ HbInRange(call.args[1])) =>
          LET hb == call.args[1] IN
          /\ Returned(result)
          /\ \E i \in Brackets :
                /\ FLe(Num(HRC_HB_TABLE[i][2]), hb)
                /\ FLe(hb, Num(HRC_HB_TABLE[i + 1][2]))
                /\ result.val = Interpolate(hb,
                      Num(HRC_HB_TABLE[i][2]), Num(HRC_HB_TABLE[i][1]),
                      Num(HRC_HB_TABLE[i + 1][2]), Num(HRC_HB_TABLE[i + 1][1]))
          /\ \A i \in TableRows :
                hb = Num(HRC_HB_TABLE[i][2]) => result.val = Num(HRC_HB_TABLE[i][1])

\* the last tabulated HRC, 55, has been converted to exactly 545
C4_Witness ==
    /\ Called("hrc_to_hb")
    /\ call.args[1] = Num(55)
    /\ result = Ok(Num(545))

\* C25: in hrc_to_hb and hb_to_hrc a query that passed the range check lies
\* in some bracket, low <= query <= high for a consecutive table pair, so the
\* value is returned from inside the loop and the return of the last table
\* value after the loop is never reached.
C25_BracketFound ==
    /\ (Called("hrc_to_hb") /\ Returned(result)) =>
          \E i \in Brackets :
              /\ FLe(Num(HRC_HB_TABLE[i][1]), call.args[1])
              /\ FLe(call.args[1], Num(HRC_HB_TABLE[i + 1][1]))
    /\ (Called("hb_to_hrc") /\ Returned(result)) =>
          \E i \in Brackets :
              /\ FLe(Num(HRC_HB_TABLE[i][2]), call.args[1])
              /\ FLe(call.args[1], Num(HRC_HB_TABLE[i + 1][2]))

\* hrc_to_hb(float("nan")) has passed the range check and returned the last
\* table value, 545
C25_Witness ==
    /\ Called("hrc_to_hb")
    /\ call.args = <<NaN>>
    /\ result = Ok(Num(545))

\* every query that is a number and passed the range check lies in a bracket
BracketFoundForNumbers ==
    /\ (Called("hrc_to_hb") /\ Returned(result) /\ ~IsNaN(call.args[1])) =>
          \E i \in Brackets :
              /\ FLe(Num(HRC_HB_TABLE[i][1]), call.args[1])
              /\ FLe(call.args[1], Num(HRC_HB_TABLE[i + 1][1]))
    /\ (Called("hb_to_hrc") /\ Returned(result) /\ ~IsNaN(call.args[1])) =>
          \E i \in Brackets :
              /\ FLe(Num(HRC_HB_TABLE[i][2]), call.args[1])
              /\ FLe(call.args[1], Num(HRC_HB_TABLE[i + 1][2]))

----------------------------------------------------------------------------
(* Properties: lever rule *)

\* C5 as stated: W_alpha + W_beta = 1 exactly (the float sum, as the
\* comparison wa + wb == 1.0 evaluates it) for every c_alpha # c_beta.
C5_SumExactlyOne ==
    (Called("lever_rule") /\ call.args[2] # call.args[3]) =>
        /\ Returned(result)
        /\ FAdd(result.val[1], result.val[2]) = One

\* C5 (amended): W_beta is the float nearest to 1 - W_alpha, so the exact sum
\* W_alpha + W_beta differs from 1 by at most one rounding error of that
\* subtraction: |W_alpha + W_beta - 1| <= 2^-Prec * |W_beta|.
C5_SumOneWithinRounding ==
    (Called("lever_rule") /\ call.args[2] # call.args[3]) =>
        /\ Returned(result)
        /\ LET w_alpha == result.val[1]
               w_beta == result.val[2]
               err == RAbs(RSub(RAdd(w_alpha, w_beta), One))
           IN  FLe(RMul(err, Num(MantHi)), RAbs(w_beta))

\* lever_rule has returned fractions whose sum is not 1
C5_Witness ==
    /\ Called("lever_rule")
    /\ Returned(result)
    /\ RAdd(result.val[1], result.val[2]) # One

\* C6: lever_rule raises ValueError if and only if c_beta = c_alpha; otherwise
\* W_alpha = (c_beta - c0) / (c_beta - c_alpha) and W_beta = 1 - W_alpha, and
\* lever_rule(35, 20, 60) = (0.625, 0.375).
C6_LeverRule ==
    Called("lever_rule") =>
        LET c0 == call.args[1]
            c_alpha == call.args[2]
            c_beta == call.args[3]
        IN  /\ Raised(result) <=> c_beta = c_alpha
            /\ Raised(result) => result.kind = "ValueError"
            /\ c_beta # c_alpha =>
                  /\ Returned(result)
                  /\ result.val[1] = FDiv(FSub(c_beta, c0), FSub(c_beta, c_alpha))
                  /\ result.val[2] = FSub(One, result.val[1])
            /\ call.args = <<Num(35), Num(20), Num(60)>> =>
                  result = Ok(<<<<5, 8>>, <<3, 8>>>>)

\* lever_rule(35, 20, 60) has returned
C6_Witness ==
    /\ Called("lever_rule")
    /\ call.args = <<Num(35), Num(20), Num(60)>>
    /\ Returned(result)

----------------------------------------------------------------------------
(* Properties: galvanic series *)

Known(metal) == dict_contains(GALVANIC_POTENTIALS, canonical_key(metal))

\* the potential tabulated for a known metal, as the exact decimal of the source
Tabulated(metal) ==
    LET v == dict_getitem(GALVANIC_POTENTIALS_LITERAL, canonical_key(metal))
    IN  Rat(v[1], v[2])

Zinc == <<"z", "i", "n", "c">>
Copper == <<"c", "o", "p", "p", "e", "r">>
Unobtanium == <<"u", "n", "o", "b", "t", "a", "n", "i", "u", "m">>

\* C7: for two known metals with different tabulated potentials the anode is
\* the metal with the more negative potential and the cathode the other one,
\* whatever the order of the arguments, and the returned difference is
\* |Va - Vb| > 0; for zinc and copper the anode is zinc in both orders.
C7_AnodeMoreNegative ==
    Called("galvanic_potential_diff") =>
        LET a == call.args[1]
            b == call.args[2]
        IN  /\ (Known(a) /\ Known(b) /\ Tabulated(a) # Tabulated(b)) =>
                  LET low == IF FLt(Tabulated(a), Tabulated(b)) THEN a ELSE b
                      high == IF FLt(Tabulated(a), Tabulated(b)) THEN b ELSE a
                      va == dict_getitem(GALVANIC_POTENTIALS, canonical_key(a))
                      vb == dict_getitem(GALVANIC_POTENTIALS, canonical_key(b))
                  IN  /\ Returned(result)
                      /\ result.val[2] = low
                      /\ result.val[3] = high
                      /\ result.val[1] = FAbs(FSub(va, vb))
                      /\ FGt(result.val[1], Zero)
                      /\ galvanic_potential_diff(GALVANIC_POTENTIALS, b, a) = result
            /\ {a, b} = {Zinc, Copper} =>
                  Returned(result) /\ result.val[2] = Zinc /\ result.val[3] = Copper

\* galvanic_potential_diff("copper", "zinc") has returned: the anode is the
\* second argument
C7_Witness ==
    /\ Called("galvanic_potential_diff")
    /\ call.args = <<Copper, Zinc>>
    /\ Returned(result)
    /\ result.val[2] = Zinc

\* C8: galvanic_potential_diff raises when either name is absent from the
\* table after canonicalization, whichever position it is in; nothing is
\* returned, and the message names an offending input and lists every key of
\* the table.
C8_UnknownMetal ==
    Called("galvanic_potential_diff") =>
        LET a == call.args[1]
            b == call.args[2]
        IN  (~Known(a) \/ ~Known(b)) =>
                /\ result.kind = "ValueError"
                /\ "val" \notin DOMAIN result
                /\ result.msg[2] \in {m \in {a, b} : ~Known(m)}
                /\ result.msg[4] = dict_keys(GALVANIC_POTENTIALS_LITERAL)

\* the unknown name was the second argument, and the error names it
C8_Witness ==
    /\ Called("galvanic_potential_diff")
    /\ call.args = <<Zinc, Unobtanium>>
    /\ result.kind = "ValueError"
    /\ result.msg[2] = Unobtanium

\* two characters that are the same letter in either case
SameLetter(c, d) ==
    \/ c = d
    \/ \E j \in 1..Len(ASCII_UPPERCASE) : {c, d} = {ASCII_UPPERCASE[j], ASCII_LOWERCASE[j]}

\* two spellings that differ only in letter case or in space versus underscore
SameSpelling(s, u) ==
    /\ Len(s) = Len(u)
    /\ \A i \in 1..Len(s) : SameLetter(s[i], u[i]) \/ {s[i], u[i]} = {" ", "_"}

\* which argument a returned outcome reports as anode: 1, 2, or 0 when the
\* two arguments are the same text
AnodePosition(r, a, b) ==
    IF a = b THEN 0 ELSE IF r.val[2] = a /\ r.val[3] = b THEN 1 ELSE 2

\* C9: names are looked up after lower-casing and replacing spaces by
\* underscores: inputs that differ only in letter case or in space versus
\* underscore are both accepted or both rejected, and give the same potential
\* difference and the same anode and cathode roles.
C9_Canonicalization ==
    Called("galvanic_potential_diff") =>
        LET a == call.args[1]
            b == call.args[2]
        IN  \A a2 \in MetalInputs, b2 \in MetalInputs :
                (SameSpelling(a, a2) /\ SameSpelling(b, b2)) =>
                    LET other == galvanic_potential_diff(GALVANIC_POTENTIALS, a2, b2)
                    IN  /\ other.kind = result.kind
                        /\ Returned(result) =>
                              /\ other.val[1] = result.val[1]
                              /\ (a # b /\ a2 # b2) =>
                                    AnodePosition(other, a2, b2) = AnodePosition(result, a, b)

\* "MILD STEEL" and "Zinc", neither spelled as its table key, have been
\* accepted, with the zinc argument as anode
C9_Witness ==
    /\ Called("galvanic_potential_diff")
    /\ call.args = <<<<"M", "I", "L", "D", " ", "S", "T", "E", "E", "L">>, <<"Z", "i", "n", "c">>>>
    /\ Returned(result)
    /\ result.val[2] = <<"Z", "i", "n", "c">>

Stainless316 == <<"s", "t", "a", "i", "n", "l", "e", "s", "s", "_", "3", "1", "6">>
Titanium == <<"t", "i", "t", "a", "n", "i", "u", "m">>

\* C26: for two known metals with equal tabulated potentials (the same metal
\* twice, or stainless_316 and titanium) the call does not fail: it returns a
\* difference of 0 with the second argument as anode and the first as
\* cathode, so swapping the arguments swaps the reported roles.
C26_EqualPotentials ==
    Called("galvanic_potential_diff") =>
        LET a == call.args[1]
            b == call.args[2]
        IN  (Known(a) /\ Known(b) /\ Tabulated(a) = Tabulated(b)) =>
                /\ result = Ok(<<Zero, b, a>>)
                /\ galvanic_potential_diff(GALVANIC_POTENTIALS, b, a) = Ok(<<Zero, a, b>>)

\* galvanic_potential_diff("stainless_316", "titanium") has returned 0 with
\* titanium as anode, and zinc against zinc returns 0 as well
C26_Witness ==
    /\ Called("galvanic_potential_diff")
    /\ call.args = <<Stainless316, Titanium>>
    /\ result = Ok(<<Zero, Titanium, Stainless316>>)
    /\ galvanic_potential_diff(GALVANIC_POTENTIALS, Zinc, Zinc) = Ok(<<Zero, Zinc, Zinc>>)

\* C27: every successful galvanic_potential_diff call returns as anode and
\* cathode the two argument strings themselves, one each, in the spelling the
\* caller passed (not the table key), and a difference >= 0.
C27_ArgumentsReturned ==
    (Called("galvanic_potential_diff") /\ Returned(result)) =>
        LET a == call.args[1]
            b == call.args[2]
        IN  /\ <<result.val[2], result.val[3]>> \in {<<a, b>>, <<b, a>>}
            /\ result.val[1][1] >= 0

\* galvanic_potential_diff("Titanium", "ZINC") has returned "ZINC" as anode
\* and "Titanium" as cathode, neither of which is a key of the table
C27_Witness ==
    /\ Called("galvanic_potential_diff")
    /\ call.args = <<<<"T", "i", "t", "a", "n", "i", "u", "m">>, <<"Z", "I", "N", "C">>>>
    /\ Returned(result)
    /\ result.val[2] = <<"Z", "I", "N", "C">>
    /\ result.val[3] = <<"T", "i", "t", "a", "n", "i", "u", "m">>
    /\ ~dict_contains(GALVANIC_POTENTIALS, result.val[2])
    /\ ~dict_contains(GALVANIC_POTENTIALS, result.val[3])

----------------------------------------------------------------------------
(* Properties: concurrent callers *)

\* the outcome of a call that runs alone on the tables as constructed
Alone(c) ==
    CASE c.fn = "hrc_to_hb" -> hrc_to_hb(HRC_HB_TABLE_LITERAL, c.args[1])
      [] c.fn = "hb_to_hrc" -> hb_to_hrc(HRC_HB_TABLE_LITERAL, c.args[1])
      [] c.fn = "galvanic_potential_diff" ->
            galvanic_potential_diff(GALVANIC_POTENTIALS_BUILD, c.args[1], c.args[2])

\* C21: in every interleaving of the steps of concurrent hrc_to_hb, hb_to_hrc
\* and galvanic_potential_diff calls on the two shared tables, each call
\* returns or fails exactly as it does when run alone.
C21_AsWhenAlone ==
    \A t \in Threads :
        threads[t].at = "done" =>
            threads[t].result = Alone([fn |-> threads[t].fn, args |-> threads[t].args])

\* a galvanic_potential_diff call has returned while another caller is in
\* the middle of its table scan
C21_Witness ==
    \E t \in Threads, u \in Threads :
        /\ threads[t].at = "done"
        /\ threads[t].fn = "galvanic_potential_diff"
        /\ Returned(threads[t].result)
        /\ threads[u].at = "loop"
        /\ threads[u].i > 1

----------------------------------------------------------------------------
(* Properties: validation *)

\* the last call was made with an input outside the documented domain of
\* its function
GuardViolated ==
    \/ Called("hrc_to_hb") /\ HrcOutside(call.args[1])
    \/ Called("hb_to_hrc") /\ HbOutside(call.args[1])
    \/ Called("lever_rule") /\ call.args[3] = call.args[2]
    \/ Called("galvanic_potential_diff") /\ (~Known(call.args[1]) \/ ~Known(call.args[2]))
    \/ Called("yield_strength") /\ call.args[2][1] <= 0
    \/ Called("scheil_equation") /\
          (\/ call.args[3][1] < 0
           \/ call.args[3][1] >= call.args[3][2]
           \/ call.args[1][1] <= 0)
    \/ Called("factor_of_safety") /\ call.args[2][1] = 0
    \/ Called("composite_slab_heat_flux") /\
          LET total == sum_resistances(call.args[2], 1, Zero)
          IN  call.args[2] = <<>> \/ (Returned(total) /\ total.val[1] <= 0)
    \/ Called("gibbs_phase_rule") /\
          (\/ call.args[1] < 1
           \/ call.args[2] < 1
           \/ call.args[1] - call.args[2] + 2 < 0)
    \/ Called("avrami_fraction") /\ (call.args[2][1] < 0 \/ call.args[1][1] < 0)
    \/ Called("newtonian_cooling_rate") /\
          (call.args[5][1] <= 0 \/ call.args[3][1] <= 0 \/ call.args[4][1] <= 0)
    \/ Called("rule_of_mixtures_longitudinal") /\
          (call.args[2][1] < 0 \/ call.args[2][1] > call.args[2][2])
    \/ Called("halpin_tsai") /\
          (\/ call.args[3][1] < 0
           \/ call.args[3][1] > call.args[3][2]
           \/ call.args[1][1] <= 0
           \/ call.args[2][1] <= 0)
    \/ Called("creep_rate_steady_state") /\ call.args[6][1] <= 0

\* C10: a validated function called with an input that violates its
\* documented guard raises ValueError and returns no value; in particular
\* yield_strength for area <= 0, scheil_equation for fs < 0, fs >= 1 or
\* k <= 0, and factor_of_safety for an applied stress of 0.
C10_GuardsRaise ==
    GuardViolated => (result.kind = "ValueError" /\ "val" \notin DOMAIN result)

\* scheil_equation(0.5, 4.0, 1.0), with the fraction solid at the excluded
\* upper end, has raised
C10_Witness ==
    /\ Called("scheil_equation")
    /\ call.args = <<Half, Num(4), One>>
    /\ result.kind = "ValueError"

----------------------------------------------------------------------------
(* Properties: failures *)

\* the library's DomainError is Python's ValueError
DomainError(r) == r.kind = "ValueError"

\* C11: a call fails with a DomainError or not at all: a denominator that
\* is 0 is rejected with a DomainError before the division, so no call ends
\* in a ZeroDivisionError or any other fault; in particular
\* composite_slab_heat_flux with a layer of conductivity 0, halpin_tsai with
\* Ef/Em + xi = 0 or eta * Vf = 1, avrami_fraction with t = 0 and n < 0, and
\* creep_rate_steady_state with R = 0.
C11_OnlyDomainError ==
    pc = "done" => (Returned(result) \/ DomainError(result))

\* composite_slab_heat_flux(200, [(3, 0)]), a slab whose only layer has the
\* conductivity 0, has ended in a ZeroDivisionError
C11_Witness ==
    /\ Called("composite_slab_heat_flux")
    /\ call.args = <<Num(200), << <<Num(3), Zero>> >> >>
    /\ result = ZeroDivisionError

----------------------------------------------------------------------------
(* Properties: transformation kinetics *)

\* C12: avrami_fraction(k, 0, n) returns exactly 0 for every rate constant
\* k >= 0 and every exponent n, n = 0 and n < 0 included.
C12_ZeroAtStart ==
    (/\ Called("avrami_fraction")
     /\ call.args[2] = Zero
     /\ FGe(call.args[1], Zero))
    => result = Ok(Zero)

\* avrami_fraction(1, 0, 0) has returned 1 - exp(-1), which is not 0
C12_Witness ==
    /\ Called("avrami_fraction")
    /\ call.args = <<One, Zero, Zero>>
    /\ Returned(result)
    /\ FGt(result.val, Half)

----------------------------------------------------------------------------
(* Properties: von Mises equivalent stress *)

\* C13: under a hydrostatic state the equivalent stress vanishes:
\* von_mises_stress(s, s, s) returns 0 for every s.
C13_Hydrostatic ==
    (/\ Called("von_mises_stress")
     /\ call.args[1] = call.args[2]
     /\ call.args[2] = call.args[3])
    => result = Ok(Zero)

\* von_mises_stress(-3.3, -3.3, -3.3) has returned 0
C13_Witness ==
    /\ Called("von_mises_stress")
    /\ call.args = <<Float(-33, 10), Float(-33, 10), Float(-33, 10)>>
    /\ result = Ok(Zero)

\* C14: under a uniaxial state the equivalent stress is the magnitude of the
\* stress: von_mises_stress(s, 0, 0) returns |s| for every s, compressive
\* (negative) s included, and the value returned is never negative.
C14_Uniaxial ==
    /\ (/\ Called("von_mises_stress")
         /\ call.args[2] = Zero
         /\ call.args[3] = Zero)
        => result = Ok(FAbs(call.args[1]))
    /\ (Called("von_mises_stress") /\ Returned(result)) => FGe(result.val, Zero)

\* von_mises_stress(8192, 0, 0), whose square is out of the range of a
\* float, has ended in an OverflowError
C14_Witness ==
    /\ Called("von_mises_stress")
    /\ call.args = <<Num(8192), Zero, Zero>>
    /\ result = OverflowError

\* uniaxial states whose square is in range: the equivalent stress is |s|
UniaxialInRange ==
    (/\ Called("von_mises_stress")
     /\ call.args[2] = Zero
     /\ call.args[3] = Zero
     /\ result # OverflowError)
    => result = Ok(FAbs(call.args[1]))

----------------------------------------------------------------------------
(* Properties: tensile strength from hardness *)

\* C24: brinell_to_tensile(hb) returns the float product 3.45 * hb for every
\* hb > 0 (690 for hb = 200) and fails with a DomainError for every hb <= 0,
\* hb = 0 included.
C24_BrinellToTensile ==
    Called("brinell_to_tensile") =>
        LET hb == call.args[1]
        IN  /\ hb[1] > 0 => result = Ok(Round(RMul(Float(345, 100), hb)))
            /\ hb[1] <= 0 => DomainError(result)
            /\ hb = Num(200) => result = Ok(Num(690))

\* brinell_to_tensile(0) has raised, and brinell_to_tensile(200) and
\* brinell_to_tensile(1/16) return their products
C24_Witness ==
    /\ Called("brinell_to_tensile")
    /\ call.args = <<Zero>>
    /\ DomainError(result)
    /\ brinell_to_tensile(Num(200)) = Ok(Num(690))
    /\ Returned(brinell_to_tensile(Float(1, 16)))

----------------------------------------------------------------------------
(* Properties: composites *)

\* C15: rule_of_mixtures_longitudinal(Ef, Vf, Em) fails exactly when Vf is
\* outside [0, 1], and then with a DomainError; for Vf = 0 it returns Em and
\* for Vf = 1 it returns Ef, whatever Ef and Em are.
C15_RuleOfMixtures ==
    Called("rule_of_mixtures_longitudinal") =>
        LET e_fiber == call.args[1]
            v_fiber == call.args[2]
            e_matrix == call.args[3]
        IN  /\ Returned(result) \/ DomainError(result)
            /\ DomainError(result) <=> (FLt(v_fiber, Zero) \/ FGt(v_fiber, One))
            /\ v_fiber = Zero => result = Ok(e_matrix)
            /\ v_fiber = One => result = Ok(e_fiber)

\* rule_of_mixtures_longitudinal(350, 1, 0.1) has returned 350 and
\* rule_of_mixtures_longitudinal(350, 0, 0.1) would return the float 0.1
C15_Witness ==
    /\ Called("rule_of_mixtures_longitudinal")
    /\ call.args = <<Num(350), One, Float(1, 10)>>
    /\ result = Ok(Num(350))
    /\ rule_of_mixtures_longitudinal(Num(350), Zero, Float(1, 10)) = Ok(Float(1, 10))

----------------------------------------------------------------------------
(* Properties: composite slab *)

\* the lists that hold the layers of a list in another order
Reorderings(layers) ==
    {[i \in 1..Len(layers) |-> layers[p[i]]] : p \in Permutations(1..Len(layers))}

\* there is a layer, and every layer has a positive thickness and a
\* positive conductivity
AllPositive(layers) ==
    /\ layers # <<>>
    /\ \A i \in 1..Len(layers) : layers[i][1][1] > 0 /\ layers[i][2][1] > 0

\* |x - y| <= 4 * n * 2^-Prec * y
Within(x, y, n) ==
    FLe(RMul(RAbs(RSub(x, y)), Num(Pow2(Prec))), RMul(Num(4 * n), y))

C17_SlabFlux ==
    /\ Called("composite_slab_heat_flux") =>
          LET delta_t == call.args[1]
              layers == call.args[2]
              total == sum_resistances(layers, 1, Zero)
          IN  IF layers = <<>> \/ (Returned(total) /\ FLe(total.val, Zero))
              THEN DomainError(result)
              ELSE /\ Returned(result)
                   /\ Returned(total) => result.val = FDiv(FAbs(delta_t), total.val)
                   /\ FGe(result.val, Zero)
                   /\ composite_slab_heat_flux(RNeg(delta_t), layers) = result
    /\ composite_slab_heat_flux(Num(200), TestLayers) = Ok(Num(80000))

\* composite_slab_heat_flux(-200, [(1, 1), (3, 0)]), whose second layer has
\* the conductivity 0, has ended in a ZeroDivisionError
C17_Witness ==
    /\ Called("composite_slab_heat_flux")
    /\ call.args = <<Num(-200), << <<One, One>>, <<Num(3), Zero>> >> >>
    /\ result = ZeroDivisionError

\* slabs without a layer of conductivity 0: the flux is as documented
SlabFluxNonzeroConductivity ==
    Called("composite_slab_heat_flux") =>
        LET delta_t == call.args[1]
            layers == call.args[2]
            total == sum_resistances(layers, 1, Zero)
        IN  Returned(total) =>
              IF layers = <<>> \/ FLe(total.val, Zero)
              THEN DomainError(result)
              ELSE /\ result = Ok(FDiv(FAbs(delta_t), total.val))
                   /\ FGe(result.val, Zero)
                   /\ composite_slab_heat_flux(RNeg(delta_t), layers) = result

----------------------------------------------------------------------------
(* Properties: phase rule *)

\* C18: gibbs_phase_rule(components, phases) fails, with a DomainError,
\* exactly when components < 1, phases < 1 or components - phases + 2 < 0;
\* otherwise it returns F = components - phases + 2, so a returned F is
\* never negative.
C18_PhaseRule ==
    Called("gibbs_phase_rule") =>
        LET components == call.args[1]
            phases == call.args[2]
            invalid == components < 1 \/ phases < 1 \/ components - phases + 2 < 0
        IN  /\ invalid => DomainError(result)
            /\ ~invalid => result = Ok(components - phases + 2)
            /\ Returned(result) => result.val >= 0

\* gibbs_phase_rule(1, 3), a system with no degree of freedom left, has
\* returned 0
C18_Witness ==
    /\ Called("gibbs_phase_rule")
    /\ call.args = <<1, 3>>
    /\ result = Ok(0)

----------------------------------------------------------------------------
(* Properties: cooling *)

\* C19: whenever newtonian_cooling_rate returns a value and
\* t_current > t_ambient, the rate returned is negative.
C19_CoolingNegative ==
    (/\ Called("newtonian_cooling_rate")
     /\ Returned(result)
     /\ FGt(call.args[6], call.args[7]))
    => FLt(result.val, Zero)

\* C19, amended: whenever newtonian_cooling_rate returns a value and
\* t_current > t_ambient, the rate is negative if h * area > 0, zero if
\* h = 0 or area = 0, and positive if h * area < 0: h and area are not
\* validated.
C19_CoolingSign ==
    (/\ Called("newtonian_cooling_rate")
     /\ Returned(result)
     /\ FGt(call.args[6], call.args[7]))
    => LET sign == call.args[1][1] * call.args[2][1]
       IN  /\ sign > 0 => FLt(result.val, Zero)
           /\ sign = 0 => result.val = Zero
           /\ sign < 0 => FGt(result.val, Zero)

\* newtonian_cooling_rate(100, 0.1, 7800, 500, 0.001, 800, 25), the call of
\* the test suite, has returned a negative rate, and the same casting with
\* h = 0 returns the rate 0
C19_Witness ==
    /\ Called("newtonian_cooling_rate")
    /\ call.args = <<Num(100), Float(1, 10), Num(7800), Num(500), Float(1, 1000),
                     Num(800), Num(25)>>
    /\ Returned(result)
    /\ FLt(result.val, Zero)
    /\ newtonian_cooling_rate(Zero, Float(1, 10), Num(7800), Num(500),
                              Float(1, 1000), Num(800), Num(25)) = Ok(Zero)

----------------------------------------------------------------------------
(* Properties: the reference tables *)

\* the outcome of the last call, had it been the first call of the program
FirstCallOutcome ==
    IF call.fn = "hrc_to_hb" THEN hrc_to_hb(HRC_HB_TABLE_LITERAL, call.args[1])
    ELSE IF call.fn = "hb_to_hrc" THEN hb_to_hrc(HRC_HB_TABLE_LITERAL, call.args[1])
    ELSE IF call.fn = "galvanic_potential_diff"
    THEN galvanic_potential_diff(GALVANIC_POTENTIALS_BUILD, call.args[1], call.args[2])
    ELSE IF call.fn = "available_metals" THEN available_metals(GALVANIC_POTENTIALS_BUILD)
    ELSE result

\* C20: the hardness table and the galvanic series are only read: after
\* any sequence of calls (hrc_to_hb, hb_to_hrc, galvanic_potential_diff,
\* available_metals and every other formula) both tables hold what they
\* held when the program started, and the outcome of a call is the one the
\* same call would have had as the first call.
C20_TablesReadOnly ==
    /\ HRC_HB_TABLE = HRC_HB_TABLE_LITERAL
    /\ GALVANIC_POTENTIALS = GALVANIC_POTENTIALS_BUILD
    /\ pc = "done" => result = FirstCallOutcome

\* hrc_to_hb(20) and then hb_to_hrc of its result have been called, and
\* available_metals() still lists the fourteen metals, magnesium first
C20_Witness ==
    /\ Called("hb_to_hrc")
    /\ origin = <<Num(20)>>
    /\ Len(HRC_HB_TABLE) = 36
    /\ Len(available_metals(GALVANIC_POTENTIALS).val) = 14
    /\ available_metals(GALVANIC_POTENTIALS).val[1]
          = <<"m", "a", "g", "n", "e", "s", "i", "u", "m">>

----------------------------------------------------------------------------
(* Properties: the interactive program *)

\* the program waits at "Enter choice" of the main menu or of a sub-menu
AtChoicePrompt == status = "running" /\ option = 0

\* the program waits at an input prompt of a branch of a sub-menu
AtValuePrompt == status = "running" /\ option > 0

\* the options of the menu on the screen
options_shown == IF menu = "main_menu" THEN CATEGORIES ELSE options_of(menu)

\* the step reads a line (rather than the end of the input)
LineRead == unread' # unread

\* C28: _show_menu returns only an integer c with 0 <= c <= len(options);
\* after an entry that is not an integer or is outside that range it prints
\* the invalid-choice message and prompts again at the same menu, whatever
\* was entered before.
C28_ShowMenuChoice ==
    [][AtChoicePrompt /\ LineRead =>
          \/ /\ Returned(choice')
             /\ choice'.val \in 0..Len(options_shown)
             /\ int_of_str(line'.text) = choice'
          \/ /\ choice' = NoChoice
             /\ ~(/\ Returned(int_of_str(line'.text))
                  /\ int_of_str(line'.text).val \in 0..Len(options_shown))
             /\ shown' = "invalid_choice"
             /\ AtChoicePrompt'
             /\ menu' = menu]_vars

\* "6" was entered at the composites menu, which has five options, after
\* another entry that was no choice: the message is shown and the menu
\* still waits for a choice
C28_Witness ==
    /\ menu = "menu_composites"
    /\ AtChoicePrompt
    /\ line = Line(<<"6">>)
    /\ shown = "invalid_choice"
    /\ choice = NoChoice
    /\ unread = MaxInput - 3

\* the line just read writes the integer i
Entered(i) == LineRead /\ int_of_str(line'.text) = Ok(i)

\* C29: menu navigation.  From the main menu, choice i in 1..8 starts the
\* sub-menu of the i-th entry of CATEGORIES, and a sub-menu starts in no
\* other way; a sub-menu stays the active menu after each calculation and
\* is left only by choice 0 at its own choice prompt, after which the main
\* menu waits for a choice; main_menu returns only by choice 0 at the main
\* menu.
C29_Navigation ==
    [][/\ \A i \in 1..Len(CATEGORIES) :
             menu = "main_menu" /\ status = "running" /\ Entered(i) =>
                 /\ menu' = CATEGORIES[i][2]
                 /\ AtChoicePrompt'
       /\ menu = "main_menu" /\ menu' # "main_menu" =>
             \E i \in 1..Len(CATEGORIES) : Entered(i) /\ menu' = CATEGORIES[i][2]
       /\ menu # "main_menu" /\ status = "running" /\ formula'.fn # "none"
             /\ status' = "running" =>
                 /\ menu' = menu
                 /\ AtChoicePrompt'
       /\ menu # "main_menu" /\ AtChoicePrompt /\ Entered(0) =>
             /\ menu' = "main_menu"
             /\ AtChoicePrompt'
       /\ menu # "main_menu" /\ menu' # menu =>
             /\ AtChoicePrompt
             /\ Entered(0)
             /\ menu' = "main_menu"
       /\ status' = "returned" =>
             \/ status = "returned"
             \/ menu = "main_menu" /\ AtChoicePrompt /\ Entered(0)
       /\ menu = "main_menu" /\ status = "running" /\ Entered(0) =>
             status' = "returned"]_vars

\* choice 6 at the main menu started the sixth sub-menu, crystallography;
\* its ninth option has read three inputs and printed a result, and the
\* sub-menu waits for the next choice
C29_Witness ==
    /\ menu = "menu_crystallography"
    /\ AtChoicePrompt
    /\ formula = [fn |-> "hall_petch", raised |-> FALSE]
    /\ shown = "result"
    /\ unread = MaxInput - 5

\* C30: when standard input ends at a prompt (the main menu, a sub-menu
\* choice or an input of a calculation) the program ends with exit status
\* 0, changing nothing else; the end of the input can be met at every
\* prompt; and a run on a finite input always ends.
C30_EndOfInput ==
    /\ [](line.eof => status = "exit_0")
    /\ [](status = "running" => ENABLED input_eof)
    /\ [][line'.eof /\ ~line.eof =>
             /\ status = "running"
             /\ UNCHANGED <<menu, option, values, unread>>]_vars
    /\ <>(status # "running")

\* the input ended inside the composite-slab calculation, after the
\* temperature difference, the layer count and one thickness were entered
C30_Witness ==
    /\ line.eof
    /\ status = "exit_0"
    /\ menu = "menu_thermal"
    /\ option = 4
    /\ Len(values) = 3

\* C22: whenever the formula called by a sub-menu option raises a
\* DomainError for the values entered, the error is shown as a message and
\* the sub-menu waits for its next choice; the program does not end.
C22_DomainErrorsShown ==
    formula.raised =>
        /\ status = "running"
        /\ shown = "error"
        /\ AtChoicePrompt

\* composites option 1 was entered with a fibre volume fraction of 2:
\* rule_of_mixtures_longitudinal raised outside any try/except and the
\* program ended with a traceback
C22_Witness ==
    /\ menu = "menu_composites"
    /\ formula = [fn |-> "rule_of_mixtures_longitudinal", raised |-> TRUE]
    /\ values = <<Num(2), Num(2), Num(2)>>
    /\ status = "traceback"

\* a DomainError of an option whose call is inside try/except ValueError is
\* shown and the sub-menu goes on (bulk modulus with Poisson ratio 0.5)
CaughtErrorShown ==
    /\ menu = "menu_stress_strain"
    /\ formula = [fn |-> "bulk_modulus", raised |-> TRUE]
    /\ shown = "error"
    /\ AtChoicePrompt

\* shear modulus with Poisson ratio -1 ends the program
ShearModulusTraceback ==
    /\ formula = [fn |-> "shear_modulus", raised |-> TRUE]
    /\ values = <<Num(2), Num(-1)>>
    /\ status = "traceback"

\* a composite slab with a layer count that truncates to 0 ends the program
SlabTraceback ==
    /\ formula = [fn |-> "composite_slab_heat_flux", raised |-> TRUE]
    /\ values[2] = Zero
    /\ status = "traceback"

\* what the prompt the program waits at expects
prompt_kind ==
    IF option = 0 THEN "choice"
    ELSE prompts_of(options_of(menu)[option], values)[Len(values) + 1]

\* text is not a number of the kind the prompt expects (the optional
\* prompts take an empty entry as 0)
Unparseable(kind, text) ==
    CASE kind = "choice" -> ~Returned(int_of_str(text))
      [] kind = "text" -> FALSE
      [] kind = "opt" -> str_strip(text) # <<>> /\ ~Returned(float_of_str(text))
      [] OTHER -> ~Returned(float_of_str(text))

\* the same prompt is shown again after a message; nothing was called
Reprompted ==
    /\ status' = "running"
    /\ shown' \in {"invalid_choice", "not_numeric"}
    /\ formula' = NoFormula
    /\ UNCHANGED <<menu, option, values>>

\* C23: at every prompt that expects a number (menu choices, _float,
\* _positive_float and the optional prompts of the carbon-equivalent
\* option) an unparseable entry leads to a re-prompt, never to the end of
\* the program and never to a formula call.
C23_UnparseableReprompts ==
    [][status = "running" /\ LineRead /\ Unparseable(prompt_kind, line'.text)
          => Reprompted]_vars

\* "x" was entered at the first optional prompt of the carbon-equivalent
\* option: float("x") raised outside any try/except and the program ended
\* with a traceback
C23_Witness ==
    /\ menu = "menu_phase"
    /\ option = 4
    /\ values = <<>>
    /\ line = Line(<<"x">>)
    /\ status = "traceback"
    /\ formula = NoFormula

\* at the menu choices and the prompts of _float and _positive_float an
\* unparseable entry leads to a re-prompt
NumericPromptsReprompt ==
    [][status = "running" /\ LineRead /\ prompt_kind # "opt"
          /\ Unparseable(prompt_kind, line'.text)
          => Reprompted]_vars

====
